---------------------------- MODULE Spec2Model ----------------------------
(***************************************************************************)
(* State-machine model of amms-rs: the venue model (UniswapV2Pool,         *)
(* ERC4626Vault), the log sync engine (batch_request_logs,                 *)
(* sync_amms_reserve), discovery (get_empty_pools_from_logs,               *)
(* find_new_amms) and the checkpoint (extend, save_to_file,                *)
(* new_from_file).                                                         *)
(*                                                                         *)
(* Three specifications share the variables:                               *)
(*   SpecVenue  one venue, sync_from_log and simulate_swap_mut calls;      *)
(*   SpecSync   a growing chain, find_new_amms and sync_amms_reserve;      *)
(*   SpecMerge  checkpoints, extend, save_to_file and new_from_file.       *)
(* A variable a specification does not use is held at Unused.              *)
(***************************************************************************)
EXTENDS Integers, Sequences, FiniteSets, TLC

VARIABLES venue,    \* SpecVenue: the venue under test (a pool or a vault)
          op,       \* what the last call was and what it returned
          kept,     \* SpecVenue: a log remembered after it was applied with success
          height,   \* SpecSync: current block height of the chain
          chain,    \* SpecSync: the logs on chain (creation logs and sync logs)
          cp,       \* the checkpoint (self)
          other,    \* SpecMerge: the incoming checkpoints
          disk      \* SpecMerge: the persisted record (lists, as written)

vars == <<venue, op, kept, height, chain, cp, other, disk>>

Unused == "unused"

(***************************************************************************)
(* Bounds of the model.                                                    *)
(***************************************************************************)
\* u128::MAX and U256::MAX, scaled down so that TLC can reach the limits
U128_MAX == 3
U256_MAX == 16777215
\* greatest block number and log index of the logs offered to one venue
MaxBlock == 1
MaxIndex == 1
\* greatest amount carried by an event payload offered to one venue
MaxPayload == 1
\* greatest reserve a vault is let grow to by deposits and swaps
MaxVaultReserve == 2
\* the chain is mined up to block MaxLow, and from one logical step of the
\* reserve sync further on up to block SyncStep + 2 + MaxLow; it holds at most
\* MaxSyncLogs Sync logs
MaxLow == 1
MaxSyncLogs == 2

\* greatest discovery height stored in a checkpoint that is merged
MaxHeight == 2

\* height of the chain on which currencies are resolved
MaxChainHeight == 3

\* greatest number of addresses in one request for currency info
MaxRequest == 3

(***************************************************************************)
(* Option<T>: None is the empty sequence, Some(x) the one-element sequence *)
(***************************************************************************)
None == << >>

Some(x) == <<x>>

Unwrap(o) == o[1]

\* (u64, u64) tuples compare lexicographically
CursorLE(a, b) == a[1] < b[1] \/ (a[1] = b[1] /\ a[2] <= b[2])

CursorLT(a, b) == a[1] < b[1] \/ (a[1] = b[1] /\ a[2] < b[2])

Min(a, b) == IF a <= b THEN a ELSE b

(***************************************************************************)
(* Logs.  topic0 is the event signature; data is the payload: Malformed    *)
(* when it does not decode, else the two decoded amounts.                  *)
(***************************************************************************)
SYNC_EVENT_SIGNATURE == "Sync"

DEPOSIT_EVENT_SIGNATURE == "Deposit"

WITHDRAW_EVENT_SIGNATURE == "Withdraw"

PAIR_CREATED_EVENT_SIGNATURE == "PairCreated"

OTHER_SIGNATURE == "Other"

Malformed == << >>


\* the logs offered to one venue
Topics == {SYNC_EVENT_SIGNATURE, DEPOSIT_EVENT_SIGNATURE, WITHDRAW_EVENT_SIGNATURE,
           OTHER_SIGNATURE}

VenuePayloads == {Malformed} \cup ((1..MaxPayload) \X {1})

VenueLogs == [topic0 : Topics,
              block_number : {None} \cup {Some(b) : b \in 1..MaxBlock},
              log_index : {None} \cup {Some(i) : i \in 0..MaxIndex},
              data : VenuePayloads]

\* the result of a call on a venue: the venue after the call, the value or
\* error returned ("Panic" when the call panics), the amount returned by a
\* swap, and whether a subtraction went below zero or an addition above the
\* width of the integer
Result(v, res) == [v |-> v, res |-> res, out |-> 0, underflow |-> FALSE, overflow |-> FALSE]

(***************************************************************************)
(* The cursor test of sync_from_log: `new_log_index <= self.last_synced`.  *)
(***************************************************************************)
AlreadySynced_Strict(new_log_index, last_synced) == CursorLT(new_log_index, last_synced)

AlreadySynced(new_log_index, last_synced) == CursorLE(new_log_index, last_synced)

(***************************************************************************)
(* UniswapV2Pool                                                           *)
(***************************************************************************)
Currency(address) == [address |-> address, symbol |-> "", decimals |-> 0]

UniswapV2Pool(address, token_0, token_1, fee) ==
    [kind |-> "pool", address |-> address,
     token_a |-> Currency(token_0), token_b |-> Currency(token_1),
     reserve_0 |-> 0, reserve_1 |-> 0, last_synced_log |-> <<0, 0>>, fee |-> fee]

\* the cursor a successful sync_from_log stores
NewCursor_Stale(last_synced, new_log_index) == last_synced

NewCursor(last_synced, new_log_index) == new_log_index

\* the last branch of sync_from_log: the topic is none of the venue's events
UnknownSignature_Ignored(v) == Result(v, "Ok")

UnknownSignature(v) == Result(v, "InvalidEventSignature")

UniswapV2Pool_sync_from_log(p, log) ==
    IF log.topic0 = SYNC_EVENT_SIGNATURE
    THEN IF log.block_number = None \/ log.log_index = None
         THEN Result(p, "Panic")                      \* unwrap() on None
         ELSE LET new_log_index == <<Unwrap(log.block_number), Unwrap(log.log_index)>> IN
              IF AlreadySynced(new_log_index, p.last_synced_log)
              THEN Result(p, "LogAlreadySynced")
              ELSE IF log.data = Malformed
              THEN Result(p, "DecodeError")
              ELSE Result([p EXCEPT !.reserve_0 = log.data[1],
                                    !.reserve_1 = log.data[2],
                                    !.last_synced_log =
                                        NewCursor(p.last_synced_log, new_log_index)],
                          "Ok")
    ELSE UnknownSignature(p)

\* get_amount_out with the fee field read as basis points
UniswapV2Pool_get_amount_out_BasisPoints(p, amount_in, reserve_in, reserve_out) ==
    IF amount_in = 0 \/ reserve_in = 0 \/ reserve_out = 0
    THEN <<0, FALSE>>
    ELSE LET fee == 10000 - p.fee
             amount_in_with_fee == amount_in * fee
             numerator == amount_in_with_fee * reserve_out
             denominator == reserve_in * 10000 + amount_in_with_fee
         IN  IF amount_in_with_fee > U256_MAX \/ numerator > U256_MAX
                \/ denominator > U256_MAX
             THEN <<0, TRUE>>
             ELSE <<numerator \div denominator, FALSE>>

\* get_amount_out: U256 arithmetic, which panics on overflow; <<amount, panicked>>
UniswapV2Pool_get_amount_out(p, amount_in, reserve_in, reserve_out) ==
    IF amount_in = 0 \/ reserve_in = 0 \/ reserve_out = 0
    THEN <<0, FALSE>>
    ELSE LET fee == (10000 - (p.fee \div 10)) \div 10
             amount_in_with_fee == amount_in * fee
             numerator == amount_in_with_fee * reserve_out
             denominator == reserve_in * 1000 + amount_in_with_fee
         IN  IF amount_in_with_fee > U256_MAX \/ numerator > U256_MAX
                \/ denominator > U256_MAX
             THEN <<0, TRUE>>
             ELSE <<numerator \div denominator, FALSE>>

\* `x += y` and `x -= y` on u128: a debug build panics when the result leaves
\* the width, a release build wraps
AddU128(x, y) == (x + y) % (U128_MAX + 1)

SubU128(x, y) == (x - y + U128_MAX + 1) % (U128_MAX + 1)

\* simulate_swap takes &self: the pool it returns is the pool it was given
UniswapV2Pool_simulate_swap(p, token_in, amount_in) ==
    LET a_in == p.token_a.address = token_in
        got == IF a_in
               THEN UniswapV2Pool_get_amount_out(p, amount_in, p.reserve_0, p.reserve_1)
               ELSE UniswapV2Pool_get_amount_out(p, amount_in, p.reserve_1, p.reserve_0)
    IN  IF got[2] THEN Result(p, "Panic")
        ELSE [Result(p, "Ok") EXCEPT !.out = got[1]]

UniswapV2Pool_simulate_swap_mut(p, token_in, amount_in, build) ==
    LET a_in == p.token_a.address = token_in
        r_in == IF a_in THEN p.reserve_0 ELSE p.reserve_1
        r_out == IF a_in THEN p.reserve_1 ELSE p.reserve_0
        got == UniswapV2Pool_get_amount_out(p, amount_in, r_in, r_out)
        amount_out == got[1]
        over == r_in + amount_in > U128_MAX
        under == r_out < amount_out
        after == IF a_in
                 THEN [p EXCEPT !.reserve_0 = AddU128(r_in, amount_in),
                                !.reserve_1 = SubU128(r_out, amount_out)]
                 ELSE [p EXCEPT !.reserve_0 = SubU128(r_out, amount_out),
                                !.reserve_1 = AddU128(r_in, amount_in)]
    IN  IF got[2] \/ amount_in > U128_MAX          \* U256 overflow, as_u128()
        THEN Result(p, "Panic")
        ELSE IF (over \/ under) /\ build = "debug"
        THEN [Result(p, "Panic") EXCEPT !.underflow = under, !.overflow = over]
        ELSE [v |-> after, res |-> "Ok", out |-> amount_out,
              underflow |-> under, overflow |-> over]

(***************************************************************************)
(* ERC4626Vault.  U256 `+=`, `-=`, `*` panic when the result leaves the    *)
(* width, `/` panics on a zero divisor.                                    *)
(***************************************************************************)
ERC4626Vault(vault_token, asset_token, deposit_fee, withdraw_fee) ==
    [kind |-> "vault", vault_token |-> vault_token, asset_token |-> asset_token,
     vault_reserve |-> 0, asset_reserve |-> 0,
     deposit_fee |-> deposit_fee, withdraw_fee |-> withdraw_fee,
     last_synced |-> <<0, 0>>]

\* two U256 updates in the order of the code: the first one that leaves the
\* width panics, with the earlier assignment already made.  first is the
\* field assigned first, r1 and r2 the mathematical results, c the cursor
\* stored at the end
TwoUpdates(v, first, r1, r2, c) ==
    LET second == IF first = "asset_reserve" THEN "vault_reserve" ELSE "asset_reserve"
    IN  IF r1 < 0 \/ r1 > U256_MAX
        THEN [Result(v, "Panic") EXCEPT !.underflow = r1 < 0, !.overflow = r1 > U256_MAX]
        ELSE IF r2 < 0 \/ r2 > U256_MAX
        THEN [Result([v EXCEPT ![first] = r1], "Panic")
              EXCEPT !.underflow = r2 < 0, !.overflow = r2 > U256_MAX]
        ELSE Result([v EXCEPT ![first] = r1, ![second] = r2, !.last_synced = c], "Ok")

ERC4626Vault_sync_from_log(v, log) ==
    IF log.block_number = None THEN Result(v, "LogBlockNumberNotFound")
    ELSE IF log.log_index = None THEN Result(v, "LogIndexNotFound")
    ELSE LET c == <<Unwrap(log.block_number), Unwrap(log.log_index)>> IN
         IF AlreadySynced(c, v.last_synced)
         THEN Result(v, "LogAlreadySynced")
         ELSE IF log.topic0 = DEPOSIT_EVENT_SIGNATURE
         THEN IF log.data = Malformed THEN Result(v, "DecodeError")
              ELSE TwoUpdates(v, "asset_reserve", v.asset_reserve + log.data[1],
                              v.vault_reserve + log.data[2],
                              NewCursor(v.last_synced, c))
         ELSE IF log.topic0 = WITHDRAW_EVENT_SIGNATURE
         THEN IF log.data = Malformed THEN Result(v, "DecodeError")
              ELSE TwoUpdates(v, "asset_reserve", v.asset_reserve - log.data[1],
                              v.vault_reserve - log.data[2],
                              NewCursor(v.last_synced, c))
         ELSE UnknownSignature(v)

\* get_amount_out; <<amount, panicked>>
ERC4626Vault_get_amount_out(v, amount_in, reserve_in, reserve_out) ==
    IF amount_in = 0 THEN <<0, FALSE>>
    ELSE IF v.vault_reserve = 0 THEN <<amount_in, FALSE>>
    ELSE LET fee == IF reserve_in = v.vault_reserve THEN v.withdraw_fee
                                                    ELSE v.deposit_fee
         IN  IF amount_in * reserve_out > U256_MAX \/ reserve_in = 0
             THEN <<0, TRUE>>
             ELSE LET q == (amount_in * reserve_out) \div reserve_in IN
                  IF q * (10000 - fee) > U256_MAX THEN <<0, TRUE>>
                  ELSE <<(q * (10000 - fee)) \div 10000, FALSE>>

ERC4626Vault_simulate_swap(v, token_in, amount_in) ==
    LET got == IF v.vault_token = token_in
               THEN ERC4626Vault_get_amount_out(v, amount_in, v.vault_reserve,
                                                v.asset_reserve)
               ELSE ERC4626Vault_get_amount_out(v, amount_in, v.asset_reserve,
                                                v.vault_reserve)
    IN  IF got[2] THEN Result(v, "Panic")
        ELSE [Result(v, "Ok") EXCEPT !.out = got[1]]

ERC4626Vault_simulate_swap_mut(v, token_in, amount_in) ==
    IF v.vault_token = token_in
    THEN LET got == ERC4626Vault_get_amount_out(v, amount_in, v.vault_reserve,
                                                v.asset_reserve)
             r == TwoUpdates(v, "vault_reserve", v.vault_reserve - amount_in,
                             v.asset_reserve - got[1], v.last_synced)
         IN  IF got[2] THEN Result(v, "Panic") ELSE [r EXCEPT !.out = got[1]]
    ELSE LET got == ERC4626Vault_get_amount_out(v, amount_in, v.asset_reserve,
                                                v.vault_reserve)
             r == TwoUpdates(v, "asset_reserve", v.asset_reserve + amount_in,
                             v.vault_reserve + got[1], v.last_synced)
         IN  IF got[2] THEN Result(v, "Panic") ELSE [r EXCEPT !.out = got[1]]

\* dispatch on the venue kind
sync_from_log(v, log) ==
    IF v.kind = "pool" THEN UniswapV2Pool_sync_from_log(v, log)
                       ELSE ERC4626Vault_sync_from_log(v, log)

simulate_swap(v, token_in, amount_in) ==
    IF v.kind = "pool" THEN UniswapV2Pool_simulate_swap(v, token_in, amount_in)
                       ELSE ERC4626Vault_simulate_swap(v, token_in, amount_in)

simulate_swap_mut(v, token_in, amount_in, build) ==
    IF v.kind = "pool" THEN UniswapV2Pool_simulate_swap_mut(v, token_in, amount_in, build)
                       ELSE ERC4626Vault_simulate_swap_mut(v, token_in, amount_in)

\* the event signatures a venue syncs on
sync_on_event_signatures(v) ==
    IF v.kind = "pool" THEN {SYNC_EVENT_SIGNATURE}
    ELSE {DEPOSIT_EVENT_SIGNATURE, WITHDRAW_EVENT_SIGNATURE}

last_synced_log(v) == IF v.kind = "pool" THEN v.last_synced_log ELSE v.last_synced

reserves(v) == IF v.kind = "pool" THEN <<v.reserve_0, v.reserve_1>>
                                  ELSE <<v.vault_reserve, v.asset_reserve>>


(***************************************************************************)
(* Checkpoint.  A HashMap is a function on its set of keys.                *)
(***************************************************************************)
EmptyMap == << >>

\* HashMap::insert
Put(m, k, v) == (k :> v) @@ m

MinOf(S) == CHOOSE x \in S : \A y \in S : x <= y

MaxOf(S) == CHOOSE x \in S : \A y \in S : y <= x

UniswapV2Factory(address, creation_block, fee) ==
    [address |-> address, creation_block |-> creation_block, fee |-> fee]

new_from_factories(factories) ==
    [block_number |-> None, factories |-> factories, amms |-> EmptyMap,
     currencies |-> EmptyMap, currencies_blacklist |-> {}]

\* min of the factories' creation blocks, unwrap_or_default
MinCreationBlock(c) ==
    IF DOMAIN c.factories = {} THEN 0
    ELSE MinOf({c.factories[f].creation_block : f \in DOMAIN c.factories})

block_number(c) ==
    IF c.block_number = None THEN MinCreationBlock(c) ELSE Unwrap(c.block_number)

\* (a variant that takes the least cursor height of the venues)
last_synced_log_block_Least(c) ==
    LET last_synced_block ==
            IF DOMAIN c.amms = {} THEN 0
            ELSE MinOf({last_synced_log(c.amms[a])[1] : a \in DOMAIN c.amms})
    IN  IF last_synced_block = 0 THEN MinCreationBlock(c) ELSE last_synced_block

last_synced_log_block(c) ==
    LET last_synced_block ==
            IF DOMAIN c.amms = {} THEN 0
            ELSE MaxOf({last_synced_log(c.amms[a])[1] : a \in DOMAIN c.amms})
    IN  IF last_synced_block = 0 THEN MinCreationBlock(c) ELSE last_synced_block

(***************************************************************************)
(* The data provider (Middleware): the chain is a set of logs, each with   *)
(* its address, topic0, block number, log index and payload.               *)
(***************************************************************************)
BlockOf(log) == Unwrap(log.block_number)

CursorOf(log) == <<Unwrap(log.block_number), Unwrap(log.log_index)>>

\* get_logs with a topic0 filter and a block range
get_logs(topics, from_block, to_block) ==
    {l \in chain : l.topic0 \in topics /\ from_block <= BlockOf(l) /\ BlockOf(l) <= to_block}

\* a failure the provider answers one request of a call with: none, the
\* get_block_number request, or the get_logs request that starts at a block
NoFailure == [at |-> "none", block |-> 0]

HeightFailure == [at |-> "get_block_number", block |-> 0]

LogsFailure(b) == [at |-> "get_logs", block |-> b]

(***************************************************************************)
(* Discovery: FactoryHelper::get_empty_pools_from_logs and                 *)
(* Checkpoint::find_new_amms.                                              *)
(***************************************************************************)
\* the `step` find_new_amms passes to get_empty_pools_from_logs
DiscoveryStep == 1000

amm_created_event_filter(factories) ==
    {PAIR_CREATED_EVENT_SIGNATURE : f \in DOMAIN factories}

\* first blocks of the windows of `while from_block < to_block`
DiscoveryWindows(from_block, to_block) ==
    IF from_block < to_block
    THEN {from_block + k * DiscoveryStep :
              k \in 0..((to_block - from_block - 1) \div DiscoveryStep)}
    ELSE {}

\* UniswapV2Factory::new_empty_amm_from_log; None when the log does not decode
new_empty_amm_from_log(factory, log) ==
    IF log.data = Malformed THEN None
    ELSE Some(UniswapV2Pool(log.data[1], log.data[2], log.data[3], factory.fee))

\* the venues decoded from the logs of the windows, or the provider's error
get_empty_pools_from_logs(factories, from_block, to_block, fail) ==
    LET windows == DiscoveryWindows(from_block, to_block)
        logs == UNION {{l \in get_logs(amm_created_event_filter(factories), w,
                                       Min(w + DiscoveryStep - 1, to_block)) :
                            l.address \in DOMAIN factories} : w \in windows}
        decoded == {new_empty_amm_from_log(factories[l.address], l) : l \in logs}
    IN  IF fail.at = "get_block_number" \/ (fail.at = "get_logs" /\ fail.block \in windows)
        THEN [res |-> "MiddlewareError", amms |-> {}, to_block |-> to_block]
        ELSE [res |-> "Ok", amms |-> {Unwrap(d) : d \in decoded \ {None}},
              to_block |-> to_block]

\* (a variant in which a rediscovered venue replaces the tracked one)
InsertNew_Overwrite(amms, new_amms) ==
    [a \in DOMAIN amms \cup {n.address : n \in new_amms} |->
        IF a \in {n.address : n \in new_amms}
        THEN CHOOSE n \in new_amms : n.address = a
        ELSE amms[a]]

\* the venue map after the loop of find_new_amms: known addresses are skipped
InsertNew(amms, new_amms) ==
    LET fresh == {n \in new_amms : n.address \notin DOMAIN amms}
    IN  [a \in DOMAIN amms \cup {n.address : n \in fresh} |->
            IF a \in DOMAIN amms THEN amms[a]
            ELSE CHOOSE n \in fresh : n.address = a]

\* (a variant that moves the discovery height only when a venue was inserted)
find_new_amms_MoveOnInsert(c, latest, fail) ==
    LET r == get_empty_pools_from_logs(c.factories, block_number(c), latest, fail)
    IN  IF r.res # "Ok" THEN [c |-> c, res |-> r.res]
        ELSE [c |-> [c EXCEPT !.amms = InsertNew(c.amms, r.amms),
                              !.block_number =
                                  IF InsertNew(c.amms, r.amms) = c.amms
                                  THEN c.block_number ELSE Some(r.to_block)],
              res |-> "Ok"]

find_new_amms(c, latest, fail) ==
    LET r == get_empty_pools_from_logs(c.factories, block_number(c), latest, fail)
    IN  IF r.res # "Ok" THEN [c |-> c, res |-> r.res]
        ELSE [c |-> [c EXCEPT !.amms = InsertNew(c.amms, r.amms),
                              !.block_number = Some(r.to_block)],
              res |-> "Ok"]

(***************************************************************************)
(* Reserve sync: batch_request_logs and Checkpoint::sync_amms_reserve.     *)
(***************************************************************************)
\* `step` of sync_amms_reserve and of batch_request_logs
SyncStep == 2500

SubStep == 250

amm_sync_event_signatures(amms) ==
    UNION {{SYNC_EVENT_SIGNATURE} : a \in DOMAIN amms}

\* (start_block..=end_block).step_by(step)
SubQueries(start_block, end_block) ==
    {start_block + k * SubStep : k \in 0..((end_block - start_block) \div SubStep)}

\* per address, the log with the greatest (block, index)
ReduceByAddress(logs) ==
    {l \in logs : \A m \in logs : m.address = l.address => CursorLE(CursorOf(m), CursorOf(l))}

RECURSIVE SortByCursor(_)
SortByCursor(logs) ==
    IF logs = {} THEN << >>
    ELSE LET first == CHOOSE l \in logs :
                          \A m \in logs : CursorLE(CursorOf(l), CursorOf(m))
         IN  <<first>> \o SortByCursor(logs \ {first})

\* (a variant that drops the answer of a failed request and goes on)
batch_request_logs_BestEffort(topics, start_block, end_block, fail, extra, extra_at) ==
    LET queries == {i \in SubQueries(start_block, end_block) :
                        ~(fail.at = "get_logs" /\ fail.block = i)}
        answers == UNION {get_logs(topics, i, Min(i + SubStep, end_block))
                              \cup (IF i = extra_at THEN extra ELSE {}) : i \in queries}
    IN  [res |-> "Ok", logs |-> SortByCursor(ReduceByAddress(answers))]

\* extra is what the provider returns besides the logs of the range, with
\* the answer to the request that starts at block extra_at
batch_request_logs(topics, start_block, end_block, fail, extra, extra_at) ==
    LET queries == SubQueries(start_block, end_block)
        answers == UNION {get_logs(topics, i, Min(i + SubStep, end_block))
                              \cup (IF i = extra_at THEN extra ELSE {}) : i \in queries}
    IN  IF fail.at = "get_logs" /\ fail.block \in queries
        THEN [res |-> "MiddlewareError", logs |-> << >>]
        ELSE [res |-> "Ok", logs |-> SortByCursor(ReduceByAddress(answers))]

\* what the replay loop does with the result of sync_from_log
OnLogResult_NoSkip(res) == IF res = "Ok" THEN "next" ELSE "return"

OnLogResult(res) ==
    IF res = "Ok" \/ res = "LogAlreadySynced" THEN "next" ELSE "return"

\* `for log in logs`; counts the logs applied and the logs skipped
RECURSIVE ReplayLogs(_, _, _, _)
ReplayLogs(amms, logs, applied, skipped) ==
    IF logs = << >>
    THEN [amms |-> amms, res |-> "Ok", applied |-> applied, skipped |-> skipped]
    ELSE LET log == Head(logs) IN
         IF log.address \notin DOMAIN amms
         THEN ReplayLogs(amms, Tail(logs), applied, skipped)
         ELSE LET r == sync_from_log(amms[log.address], log) IN
              IF OnLogResult(r.res) = "return"
              THEN [amms |-> amms, res |-> r.res, applied |-> applied, skipped |-> skipped]
              ELSE IF r.res = "Ok"
              THEN ReplayLogs([amms EXCEPT ![log.address] = r.v], Tail(logs),
                              applied + 1, skipped)
              ELSE ReplayLogs(amms, Tail(logs), applied, skipped + 1)

\* the loop of sync_amms_reserve from start_block on
RECURSIVE SyncLoop(_, _, _, _, _, _, _, _)
SyncLoop(amms, start_block, latest_block, fail, extra, extra_at, applied, skipped) ==
    IF start_block >= latest_block
    THEN [amms |-> amms, res |-> "Ok", applied |-> applied, skipped |-> skipped,
          next |-> start_block]
    ELSE LET target_block == Min(start_block + SyncStep, latest_block)
             b == batch_request_logs(amm_sync_event_signatures(amms), start_block,
                                     target_block, fail, extra, extra_at)
             r == ReplayLogs(amms, b.logs, applied, skipped)
         IN  IF b.res # "Ok"
             THEN [amms |-> amms, res |-> b.res, applied |-> applied,
                   skipped |-> skipped, next |-> start_block]
             ELSE IF r.res # "Ok"
             THEN [amms |-> r.amms, res |-> r.res, applied |-> r.applied,
                   skipped |-> r.skipped, next |-> start_block]
             ELSE SyncLoop(r.amms, target_block + 1, latest_block, fail, extra,
                           extra_at, r.applied, r.skipped)

\* (a variant that drops the venues that have never synced)
sync_amms_reserve_Prune(c, latest_block, fail, extra) ==
    LET start_block == last_synced_log_block(c) + 1
        r == SyncLoop(c.amms, start_block, latest_block, fail, extra, start_block, 0, 0)
    IN  IF fail.at = "get_block_number"
        THEN [amms |-> c.amms, res |-> "MiddlewareError", applied |-> 0, skipped |-> 0,
              next |-> start_block]
        ELSE [r EXCEPT !.amms = [a \in {b \in DOMAIN r.amms :
                                            last_synced_log(r.amms[b])[1] > 0}
                                    |-> r.amms[a]]]

sync_amms_reserve(c, latest_block, fail, extra) ==
    LET start_block == last_synced_log_block(c) + 1 IN
    IF fail.at = "get_block_number"
    THEN [amms |-> c.amms, res |-> "MiddlewareError", applied |-> 0, skipped |-> 0,
          next |-> start_block]
    ELSE SyncLoop(c.amms, start_block, latest_block, fail, extra, start_block, 0, 0)

(***************************************************************************)
(* SpecVenue: one venue, any sequence of sync_from_log and                 *)
(* simulate_swap_mut calls.                                                *)
(***************************************************************************)
Tokens == {"T0", "T1", "V"}

\* amounts offered to a swap: small ones, and the two around u128::MAX
AmountVals == (0..MaxPayload) \cup {U128_MAX, U128_MAX + 1}

\* which of the two positional fields a log lacks
MissingField(log) == IF log.block_number = None THEN "block_number"
                     ELSE IF log.log_index = None THEN "log_index"
                     ELSE "none"

\* the record of a call: its name and outcome and, for sync_from_log, whether
\* the log was a remembered one, its cursor, whether its topic is one of the
\* venue's events, and the positional field it lacks
VenueOp(name, r, replay, cursor, known, missing) ==
    [name |-> name, res |-> r.res, underflow |-> r.underflow,
     overflow |-> r.overflow, replay |-> replay, cursor |-> cursor,
     known |-> known, missing |-> missing]

InitVenue ==
    /\ venue \in {UniswapV2Pool("P", "T0", "T1", 300)}
                 \cup {ERC4626Vault("V", "T0", 0, 100)}
    /\ op = VenueOp("new", Result(0, "Ok"), FALSE, None, TRUE, "none")
    /\ kept = None
    /\ height = Unused /\ chain = Unused /\ cp = Unused
    /\ other = Unused /\ disk = Unused

\* a call after a panic does not happen; a vault is not let grow beyond
\* MaxVaultReserve
VenueAlive == op.res # "Panic"

WithinBounds(v) == v.kind = "vault" => /\ v.vault_reserve <= MaxVaultReserve
                                       /\ v.asset_reserve <= MaxVaultReserve

LogCursor(log) == IF log.block_number = None \/ log.log_index = None
                  THEN None
                  ELSE Some(<<Unwrap(log.block_number), Unwrap(log.log_index)>>)

\* venue.sync_from_log(log); the model may remember one log applied with success
SyncFromLog ==
    \E log \in VenueLogs, keep \in BOOLEAN :
        \E r \in {sync_from_log(venue, log)} :
        /\ VenueAlive
        /\ keep => kept = None /\ r.res = "Ok"
        /\ WithinBounds(r.v)
        /\ venue' = r.v
        /\ op' = VenueOp("sync_from_log", r, kept = Some(log), LogCursor(log),
                       log.topic0 \in sync_on_event_signatures(venue),
                       MissingField(log))
        /\ kept' = IF r.res = "Ok" /\ keep THEN Some(log) ELSE kept
        /\ UNCHANGED <<height, chain, cp, other, disk>>

\* venue.simulate_swap_mut(token_in, amount_in), in a debug or a release build
SimulateSwapMut ==
    \E token_in \in Tokens, amount_in \in AmountVals, build \in {"debug", "release"} :
        \E r \in {simulate_swap_mut(venue, token_in, amount_in, build)} :
        /\ VenueAlive
        /\ WithinBounds(r.v)
        /\ venue' = r.v
        /\ op' = VenueOp("simulate_swap_mut", r, FALSE, None, TRUE, "none")
        /\ UNCHANGED <<kept, height, chain, cp, other, disk>>

NextVenue == SyncFromLog \/ SimulateSwapMut

SpecVenue == InitVenue /\ [][NextVenue]_vars

(***************************************************************************)
(* C1  Idempotent replay: once sync_from_log has succeeded on a log,       *)
(* applying the same log again fails with LogAlreadySynced and leaves the  *)
(* venue (reserves and cursor) as it was.                                  *)
(***************************************************************************)
C1_IdempotentReplay ==
    [][(op'.name = "sync_from_log" /\ op'.replay)
          => (op'.res = "LogAlreadySynced" /\ venue' = venue)]_vars

\* a remembered log was applied again, to a vault whose reserves are not zero
C1_Witness ==
    /\ op.name = "sync_from_log" /\ op.replay /\ op.res = "LogAlreadySynced"
    /\ venue.kind = "vault" /\ venue.asset_reserve > 0

(***************************************************************************)
(* C2  Cursor monotonicity: over any sequence of sync_from_log calls the   *)
(* cursor of the venue never decreases, and it changes only on a           *)
(* successful call, to exactly the cursor of the applied log.              *)
(***************************************************************************)
C2_CursorMonotone ==
    [][/\ CursorLE(last_synced_log(venue), last_synced_log(venue'))
       /\ (last_synced_log(venue') # last_synced_log(venue)
             => op'.name = "sync_from_log" /\ op'.res = "Ok")
       /\ (op'.name = "sync_from_log" /\ op'.res = "Ok"
             => op'.cursor = Some(last_synced_log(venue')))]_vars

\* a log older than the cursor was refused and the cursor stayed ahead of it
C2_Witness ==
    /\ op.name = "sync_from_log" /\ op.res = "LogAlreadySynced"
    /\ op.cursor # None
    /\ CursorLT(Unwrap(op.cursor), last_synced_log(venue))
    /\ Unwrap(op.cursor)[1] > 0

(***************************************************************************)
(* C6  Reserves are never negative: in every reachable state each reserve  *)
(* is >= 0 and no subtraction has gone below zero (no wrapped and no       *)
(* crashed state from a withdraw or a swap larger than the reserve).       *)
(***************************************************************************)
C6_ReservesNeverNegative ==
    /\ reserves(venue)[1] >= 0 /\ reserves(venue)[2] >= 0
    /\ ~op.underflow


(***************************************************************************)
(* SpecSync: a chain that grows, and a checkpoint created from one factory *)
(* on which find_new_amms and sync_amms_reserve are called in any order.   *)
(***************************************************************************)
Pools == {"A", "B"}

PoolTokens(p) == IF p = "A" THEN <<"T0", "T1">> ELSE <<"T1", "T2">>

\* the chain grows by one block, or by one block more than a logical step
Strides == {1, SyncStep + 1}

HeightAllowed(h) == h <= MaxLow \/ (h > SyncStep /\ h <= SyncStep + 2 + MaxLow)

SyncLogs == {l \in chain : l.topic0 = SYNC_EVENT_SIGNATURE}

Created(p) == \E l \in chain : l.topic0 = PAIR_CREATED_EVENT_SIGNATURE /\ l.data[1] = p

ChainLog(address, topic0, block, index, data) ==
    [address |-> address, topic0 |-> topic0, block_number |-> Some(block),
     log_index |-> Some(index), data |-> data]

CreationLog(p, block, index) ==
    ChainLog("F", PAIR_CREATED_EVENT_SIGNATURE, block, index,
             <<p, PoolTokens(p)[1], PoolTokens(p)[2]>>)

\* the n-th Sync log of the chain carries the reserves (n, 1)
SyncLog(p, block, index, n) ==
    ChainLog(p, SYNC_EVENT_SIGNATURE, block, index, <<n, 1>>)

BlockLogs(p, what, block) ==
    LET n == Cardinality(SyncLogs) + 1 IN
    CASE what = "none" -> {}
      [] what = "create" -> {CreationLog(p, block, 0)}
      [] what = "sync" -> {SyncLog(p, block, 0, n)}
      [] what = "create+sync" -> {CreationLog(p, block, 0), SyncLog(p, block, 1, n)}
      [] what = "sync+sync" -> {SyncLog(p, block, 0, n), SyncLog(p, block, 1, n + 1)}

\* what the last call was, what it returned and what the provider did
SyncOp(name, res, cycle, start, latest, failstep, junk, jaddr, applied, skipped) ==
    [name |-> name, res |-> res, cycle |-> cycle, start |-> start, latest |-> latest,
     failstep |-> failstep, junk |-> junk, jaddr |-> jaddr,
     applied |-> applied, skipped |-> skipped]

InitSync ==
    /\ height = 0
    /\ chain = {}
    /\ cp = new_from_factories("F" :> UniswapV2Factory("F", 0, 300))
    /\ op = SyncOp("new", "Ok", "init", 0, 0, 0, "none", "", 0, 0)
    /\ venue = Unused /\ kept = Unused /\ other = Unused /\ disk = Unused

\* one more block, in which one pool is created, emits Sync events, or both
Mine ==
    \E d \in Strides, p \in Pools,
       what \in {"none", "create", "sync", "create+sync", "sync+sync"} :
        /\ HeightAllowed(height + d)
        /\ what = "none" => p = "A"
        /\ what \in {"create", "create+sync"} => ~Created(p) /\ (p = "B" => Created("A"))
        /\ what \in {"sync", "sync+sync"} => Created(p)
        /\ Cardinality({l \in BlockLogs(p, what, height + d) :
                            l.topic0 = SYNC_EVENT_SIGNATURE})
              + Cardinality(SyncLogs) <= MaxSyncLogs
        /\ height' = height + d
        /\ chain' = chain \cup BlockLogs(p, what, height + d)
        /\ op' = SyncOp("mine", "Ok", op.cycle, 0, 0, 0, "none", "", 0, 0)
        /\ UNCHANGED <<venue, kept, cp, other, disk>>

\* the cycle find_new_amms, sync_amms_reserve, find_new_amms, ... is "broken"
\* as soon as a call fails or comes out of turn
CycleAfter(name, res) ==
    IF res # "Ok" THEN "broken"
    ELSE IF name = "find_new_amms" /\ op.cycle \in {"init", "synced"} THEN "found"
    ELSE IF name = "sync_amms_reserve" /\ op.cycle = "found" THEN "synced"
    ELSE "broken"

\* checkpoint.find_new_amms(middleware)
FindNewAmms ==
    \E fail \in {NoFailure, HeightFailure}
                \cup {LogsFailure(w) : w \in DiscoveryWindows(block_number(cp), height)} :
        \E r \in {find_new_amms(cp, height, fail)} :
        /\ cp' = r.c
        /\ op' = SyncOp("find_new_amms", r.res, CycleAfter("find_new_amms", r.res),
                        block_number(cp), height,
                        IF fail = NoFailure THEN 0 ELSE 1, fail.at, "", 0, 0)
        /\ UNCHANGED <<venue, kept, height, chain, other, disk>>

\* first blocks of the logical steps of a sync that starts at start_block
SyncSteps(start_block, latest_block) ==
    IF start_block < latest_block
    THEN {start_block + k * (SyncStep + 1) :
              k \in 0..((latest_block - start_block - 1) \div (SyncStep + 1))}
    ELSE {}

\* the requests of a sync that the provider may fail: the first and the last
\* sub-range request of each logical step
SyncFailures(start_block, latest_block) ==
    {NoFailure, HeightFailure}
    \cup UNION {{LogsFailure(s),
                 LogsFailure(MaxOf(SubQueries(s, Min(s + SyncStep, latest_block))))} :
                    s \in SyncSteps(start_block, latest_block)}

FailStep(fail, start_block) ==
    IF fail.at = "none" THEN 0
    ELSE IF fail.at = "get_block_number" THEN -1
    ELSE 1 + (fail.block - start_block) \div (SyncStep + 1)

\* what the provider may return besides the logs asked for: nothing, a Sync
\* log of a tracked venue that was already applied, a log of a tracked venue
\* with a foreign signature, or a Sync log whose payload does not decode
JunkLogs(c, start_block) ==
    {l \in SyncLogs : /\ l.address \in DOMAIN c.amms
                      /\ CursorLE(CursorOf(l), last_synced_log(c.amms[l.address]))}
    \cup {ChainLog(a, OTHER_SIGNATURE, start_block, MaxIndex + 2, <<1, 1>>) :
              a \in DOMAIN c.amms}
    \cup {ChainLog(a, SYNC_EVENT_SIGNATURE, start_block, MaxIndex + 2, Malformed) :
              a \in DOMAIN c.amms}

JunkKind(l) == IF l.topic0 # SYNC_EVENT_SIGNATURE THEN "badsig"
               ELSE IF l.data = Malformed THEN "malformed" ELSE "stale"

\* checkpoint.sync_amms_reserve(middleware)
SyncAmmsReserve ==
    LET start_block == last_synced_log_block(cp) + 1 IN
    \E fail \in SyncFailures(start_block, height),
       extra \in {{}} \cup {{l} : l \in JunkLogs(cp, start_block)} :
        /\ extra # {} => fail = NoFailure
        /\ \E r \in {sync_amms_reserve(cp, height, fail, extra)} :
             LET j == CHOOSE l \in extra : TRUE IN
             /\ cp' = [cp EXCEPT !.amms = r.amms]
             /\ op' = SyncOp("sync_amms_reserve", r.res,
                             CycleAfter("sync_amms_reserve", r.res),
                             start_block, height, FailStep(fail, start_block),
                             IF extra = {} THEN "none" ELSE JunkKind(j),
                             IF extra = {} THEN "" ELSE j.address,
                             r.applied, r.skipped)
             /\ UNCHANGED <<venue, kept, height, chain, other, disk>>

NextSync == Mine \/ FindNewAmms \/ SyncAmmsReserve

SpecSync == InitSync /\ [][NextSync]_vars


\* the Sync logs of venue a on chain in the blocks from..to
VenueHistory(a, from, to) ==
    {l \in SyncLogs : l.address = a /\ from <= BlockOf(l) /\ BlockOf(l) <= to}

\* the log of greatest cursor of a set of logs
Latest(logs) == CHOOSE l \in logs : \A m \in logs : CursorLE(CursorOf(m), CursorOf(l))

\* venue v holds exactly what log l carries
Holds(v, l) == /\ reserves(v) = <<l.data[1], l.data[2]>>
               /\ last_synced_log(v) = CursorOf(l)

(***************************************************************************)
(* C3  Consistency with on-chain history: after any sequence of            *)
(* successfully completed cycles (find_new_amms, then sync_amms_reserve)   *)
(* every tracked venue holds the reserves of its greatest-cursor Sync log  *)
(* on chain at or below the height the last sync observed (zero reserves   *)
(* when it has none), venues discovered in a later cycle included.         *)
(***************************************************************************)
C3_ConsistentWithChain ==
    (op.name = "sync_amms_reserve" /\ op.cycle = "synced" /\ op.junk = "none") =>
        \A a \in DOMAIN cp.amms :
            LET history == VenueHistory(a, 0, op.latest) IN
            IF history = {} THEN reserves(cp.amms[a]) = <<0, 0>>
            ELSE reserves(cp.amms[a]) = <<Latest(history).data[1], Latest(history).data[2]>>

(***************************************************************************)
(* C4  Reserve replay is fail-fast: when a sub-range log query of a        *)
(* logical step fails, sync_amms_reserve returns the provider's error and  *)
(* applies no log of that step; every venue keeps the state reached by     *)
(* the earlier, completed steps.                                           *)
(***************************************************************************)
C4_FailFast ==
    [][(/\ chain' = chain
        /\ op'.name = "sync_amms_reserve"
        /\ op'.failstep > 0)
       => LET failed_from == op'.start + (op'.failstep - 1) * (SyncStep + 1) IN
          /\ op'.res = "MiddlewareError"
          /\ DOMAIN cp'.amms = DOMAIN cp.amms
          /\ \A a \in DOMAIN cp.amms :
                LET earlier == VenueHistory(a, op'.start, failed_from - 1) IN
                /\ last_synced_log(cp'.amms[a])[1] < failed_from
                /\ IF earlier = {} THEN cp'.amms[a] = cp.amms[a]
                   ELSE Holds(cp'.amms[a], Latest(earlier))]_vars

\* the second logical step failed, after the first one was applied, and the
\* failed step had a log of a tracked venue to apply
C4_Witness ==
    /\ op.name = "sync_amms_reserve" /\ op.failstep = 2 /\ op.res = "MiddlewareError"
    /\ op.applied > 0
    /\ \E a \in DOMAIN cp.amms :
          VenueHistory(a, op.start + SyncStep + 1, op.latest) # {}

(***************************************************************************)
(* C5  In the reserve sync a LogAlreadySynced outcome is a silent skip:    *)
(* the call goes on with the next log and never returns LogAlreadySynced;  *)
(* any other error of sync_from_log (invalid signature, malformed payload) *)
(* ends the call and is returned.                                          *)
(***************************************************************************)
\* the last block a successful sync that starts at start has asked for: the
\* loop ends without a request when the next step would start at latest
CoveredTo(start, latest) ==
    IF (latest - start) % (SyncStep + 1) = 0 THEN latest - 1 ELSE latest

\* the extra log of the call is the one replayed for its venue in step one
ExtraReplayed(c, o) ==
    VenueHistory(o.jaddr, o.start, Min(o.start + SyncStep, o.latest)) = {}

C5_SkipAlreadySynced ==
    [][(chain' = chain /\ op'.name = "sync_amms_reserve")
       => /\ op'.res # "LogAlreadySynced"
          /\ (op'.failstep = 0 /\ op'.junk \in {"none", "stale"})
                => /\ op'.res = "Ok"
                   /\ \A a \in DOMAIN cp.amms :
                         LET history == VenueHistory(a, op'.start,
                                                     CoveredTo(op'.start, op'.latest))
                         IN
                         IF history = {} THEN cp'.amms[a] = cp.amms[a]
                         ELSE Holds(cp'.amms[a], Latest(history))
          /\ (op'.failstep = 0 /\ op'.junk = "badsig" /\ op'.start < op'.latest
                /\ ExtraReplayed(cp, op'))
                => op'.res = "InvalidEventSignature"
          /\ (op'.failstep = 0 /\ op'.junk = "malformed" /\ op'.start < op'.latest
                /\ ExtraReplayed(cp, op'))
                => op'.res = "DecodeError"
          /\ (op'.res \in {"InvalidEventSignature", "DecodeError"})
                => \A a \in DOMAIN cp.amms :
                      last_synced_log(cp'.amms[a]) # last_synced_log(cp.amms[a])
                         => CursorLT(last_synced_log(cp'.amms[a]),
                                     <<op'.start, MaxIndex + 2>>)]_vars

\* a log already applied was skipped and a later log was applied in the same call
C5_Witness ==
    /\ op.name = "sync_amms_reserve" /\ op.res = "Ok"
    /\ op.junk = "stale" /\ op.skipped > 0 /\ op.applied > 0


(***************************************************************************)
(* Merge and persistence: Checkpoint::extend, save_to_file, new_from_file. *)
(***************************************************************************)
\* std::cmp::min on Option<u64>: None orders below every Some
OptionMin_NoneLast(x, y) ==
    IF x = None THEN y
    ELSE IF y = None THEN x
    ELSE Some(Min(Unwrap(x), Unwrap(y)))

OptionMin(x, y) ==
    IF x = None \/ y = None THEN None
    ELSE Some(Min(Unwrap(x), Unwrap(y)))

\* HashMap::extend: an incoming entry replaces the entry under the same key
HashMapExtend(m, incoming) == incoming @@ m

\* (a variant in which the entry already present wins)
extend_KeepExisting(self, o) ==
    [self EXCEPT !.block_number = OptionMin(self.block_number, o.block_number),
                 !.factories = self.factories @@ o.factories,
                 !.amms = self.amms @@ o.amms]

extend(self, o) ==
    [self EXCEPT !.block_number = OptionMin(self.block_number, o.block_number),
                 !.factories = HashMapExtend(self.factories, o.factories),
                 !.amms = HashMapExtend(self.amms, o.amms)]

\* map.values().cloned().collect(): the values in every order a HashMap may
\* iterate in
serialize_map_to_vec(m) ==
    LET n == Cardinality(DOMAIN m) IN
    {[i \in 1..n |-> m[ks[i]]] :
        ks \in {f \in [1..n -> DOMAIN m] : \A i, j \in 1..n : f[i] = f[j] => i = j}}

\* a HashSet is written as an array, in some order
serialize_set(S) ==
    LET n == Cardinality(S) IN
    {f \in [1..n -> S] : \A i, j \in 1..n : f[i] = f[j] => i = j}

\* (a variant that stores the last item of the array under every key)
deserialize_vec_to_map_LastItem(vec) ==
    [k \in {vec[i].address : i \in 1..Len(vec)} |-> vec[Len(vec)]]

\* vec.into_iter().map(|item| (item.key(), item)).collect(): of two items
\* with one key the later one stays
deserialize_vec_to_map(vec) ==
    [k \in {vec[i].address : i \in 1..Len(vec)} |->
        vec[MaxOf({i \in 1..Len(vec) : vec[i].address = k})]]

\* serde_json::to_string_pretty(self): the documents that may be written
to_string_pretty(c) ==
    {[block_number |-> c.block_number, factories |-> fs, amms |-> as,
      currencies |-> cs, currencies_blacklist |-> bl] :
        fs \in serialize_map_to_vec(c.factories),
        as \in serialize_map_to_vec(c.amms),
        cs \in serialize_map_to_vec(c.currencies),
        bl \in serialize_set(c.currencies_blacklist)}

\* serde_json::from_str
from_str(doc) ==
    [block_number |-> doc.block_number,
     factories |-> deserialize_vec_to_map(doc.factories),
     amms |-> deserialize_vec_to_map(doc.amms),
     currencies |-> deserialize_vec_to_map(doc.currencies),
     currencies_blacklist |-> {doc.currencies_blacklist[i] :
                                  i \in 1..Len(doc.currencies_blacklist)}]

(***************************************************************************)
(* SpecMerge: a checkpoint and up to two more checkpoints that are merged  *)
(* into it, in either grouping, with saves to and loads from one file.     *)
(* Every map is keyed by the address of the entity, as the maps that       *)
(* find_new_amms, sync_currencies and new_from_file build are.             *)
(***************************************************************************)
\* the i-th checkpoint holds its own version of each entity
FactoryOf(i) == UniswapV2Factory("F", MaxHeight + i, 300)

PoolOf(address, i) ==
    [UniswapV2Pool(address, "T0", "T1", 300)
        EXCEPT !.reserve_0 = i, !.reserve_1 = 1, !.last_synced_log = <<i, 0>>]

CurrencyOf(address, i) == [Currency(address) EXCEPT !.symbol = "SYM", !.decimals = i]

Profiles == {"empty", "factory", "venue", "venues"}

Contents(profile, i) ==
    CASE profile = "empty" ->
            [factories |-> EmptyMap, amms |-> EmptyMap, currencies |-> EmptyMap,
             currencies_blacklist |-> {}]
      [] profile = "factory" ->
            [factories |-> "F" :> FactoryOf(i), amms |-> EmptyMap,
             currencies |-> EmptyMap, currencies_blacklist |-> {}]
      [] profile = "venue" ->
            [factories |-> EmptyMap, amms |-> "A" :> PoolOf("A", i),
             currencies |-> "T0" :> CurrencyOf("T0", i), currencies_blacklist |-> {}]
      [] profile = "venues" ->
            [factories |-> "F" :> FactoryOf(i),
             amms |-> ("A" :> PoolOf("A", i)) @@ ("B" :> PoolOf("B", i)),
             currencies |-> ("T0" :> CurrencyOf("T0", i)) @@ ("T1" :> CurrencyOf("T1", i)),
             currencies_blacklist |-> {"X"}]

Heights == {None} \cup {Some(h) : h \in 1..MaxHeight}

CheckpointOf(h, profile, i) ==
    [block_number |-> h, factories |-> Contents(profile, i).factories,
     amms |-> Contents(profile, i).amms, currencies |-> Contents(profile, i).currencies,
     currencies_blacklist |-> Contents(profile, i).currencies_blacklist]

\* what the last call was, on which checkpoint, with which argument, and
\* what that checkpoint became; inputs are the three checkpoints at the start
\* and loaded tells that cp was replaced by the checkpoint of the file
MergeOp(name, res, self, arg, result, inputs, loaded) ==
    [name |-> name, res |-> res, self |-> self, arg |-> arg, result |-> result,
     inputs |-> inputs, loaded |-> loaded]

InitMerge ==
    \E ha, hb \in Heights, hc \in {None, Some(MaxHeight)},
       pa, pb \in Profiles, pc \in {"empty", "factory"} :
        /\ cp = CheckpointOf(ha, pa, 1)
        /\ other = <<CheckpointOf(hb, pb, 2), CheckpointOf(hc, pc, 3)>>
        /\ op = MergeOp("new", "Ok", None, None, None, <<cp>> \o other, FALSE)
        /\ disk = None /\ kept = None
        /\ venue = Unused /\ height = Unused /\ chain = Unused

\* cp.extend(other[1])
Extend ==
    /\ other # << >>
    /\ cp' = extend(cp, Head(other))
    /\ other' = Tail(other)
    /\ op' = MergeOp("extend", "Ok", Some(cp), Some(Head(other)), Some(cp'), op.inputs,
                     op.loaded)
    /\ UNCHANGED <<venue, kept, height, chain, disk>>

\* other[1].extend(other[2])
ExtendPending ==
    /\ Len(other) = 2
    /\ other' = <<extend(other[1], other[2])>>
    /\ op' = MergeOp("extend", "Ok", Some(other[1]), Some(other[2]), Some(other'[1]),
                     op.inputs, op.loaded)
    /\ UNCHANGED <<venue, kept, height, chain, cp, disk>>

\* cp.save_to_file(path); kept is the checkpoint that was written
SaveToFile ==
    \E doc \in to_string_pretty(cp) :
        /\ disk' = Some(doc)
        /\ kept' = Some(cp)
        /\ op' = MergeOp("save_to_file", "Ok", None, None, None, op.inputs, op.loaded)
        /\ UNCHANGED <<venue, height, chain, cp, other>>

\* cp = Checkpoint::new_from_file(path)
NewFromFile ==
    /\ IF disk = None
       THEN /\ cp' = cp
            /\ op' = MergeOp("new_from_file", "CheckpointError", None, None, None,
                             op.inputs, op.loaded)
       ELSE /\ cp' = from_str(Unwrap(disk))
            /\ op' = MergeOp("new_from_file", "Ok", None, None, Some(cp'), op.inputs, TRUE)
    /\ UNCHANGED <<venue, kept, height, chain, other, disk>>

NextMerge == Extend \/ ExtendPending \/ SaveToFile \/ NewFromFile

SpecMerge == InitMerge /\ [][NextMerge]_vars


(***************************************************************************)
(* C7  Checkpoint round trip: the checkpoint that new_from_file returns    *)
(* has the resume height, the factory map, the venue map, the currency map *)
(* and the blacklist of the checkpoint that save_to_file wrote, whatever   *)
(* the order in which the entries of a map were written (maps keyed by the *)
(* entity's address).                                                      *)
(***************************************************************************)
C7_RoundTrip ==
    [][(op'.name = "new_from_file" /\ op'.res = "Ok")
       => LET saved == Unwrap(kept) IN
          /\ cp'.block_number = saved.block_number
          /\ block_number(cp') = block_number(saved)
          /\ cp'.factories = saved.factories
          /\ cp'.amms = saved.amms
          /\ cp'.currencies = saved.currencies
          /\ cp'.currencies_blacklist = saved.currencies_blacklist]_vars

\* a checkpoint with two venues and two currencies was loaded from a file in
\* which they are written in descending address order, over a different one
C7_Witness ==
    /\ op.name = "new_from_file" /\ op.res = "Ok"
    /\ Len(Unwrap(disk).amms) = 2 /\ Unwrap(disk).amms[1].address = "B"
    /\ Len(Unwrap(disk).currencies) = 2 /\ Unwrap(disk).currencies[1].address = "T1"
    /\ Unwrap(disk).factories # << >>
    /\ Unwrap(disk).currencies_blacklist # << >>
    /\ Unwrap(op.result) = Unwrap(kept)

(***************************************************************************)
(* C8  Merge is last-writer-wins: after a.extend(b) every address of b's   *)
(* venue map or factory map holds b's entry, also when a had an entry      *)
(* under it, and every entry whose address is only in a is unchanged.      *)
(***************************************************************************)
C8_LastWriterWins ==
    [][op'.name = "extend"
       => LET a == Unwrap(op'.self)
              b == Unwrap(op'.arg)
              m == Unwrap(op'.result)
          IN  /\ DOMAIN m.amms = DOMAIN a.amms \cup DOMAIN b.amms
              /\ DOMAIN m.factories = DOMAIN a.factories \cup DOMAIN b.factories
              /\ \A k \in DOMAIN b.amms : m.amms[k] = b.amms[k]
              /\ \A k \in DOMAIN b.factories : m.factories[k] = b.factories[k]
              /\ \A k \in DOMAIN a.amms \ DOMAIN b.amms : m.amms[k] = a.amms[k]
              /\ \A k \in DOMAIN a.factories \ DOMAIN b.factories :
                    m.factories[k] = a.factories[k]]_vars

\* {height 2, A: v1, B, F} merged with {height 1, A: v2}: A collides with a
\* different entry, B and F are only in a
C8_Witness ==
    /\ op.name = "extend"
    /\ Unwrap(op.self).block_number = Some(2) /\ Unwrap(op.arg).block_number = Some(1)
    /\ "A" \in DOMAIN Unwrap(op.self).amms /\ "A" \in DOMAIN Unwrap(op.arg).amms
    /\ Unwrap(op.self).amms["A"] # Unwrap(op.arg).amms["A"]
    /\ "B" \in DOMAIN Unwrap(op.self).amms \ DOMAIN Unwrap(op.arg).amms
    /\ "F" \in DOMAIN Unwrap(op.self).factories \ DOMAIN Unwrap(op.arg).factories
    /\ Unwrap(op.result).block_number = Some(1)
    /\ Unwrap(op.result).amms["A"] = Unwrap(op.arg).amms["A"]

(***************************************************************************)
(* C9  (as stated) Merge never skips unsynced history: after a.extend(b)   *)
(* the resume height is the minimum of the two checkpoints' resume         *)
(* heights, and merging three checkpoints gives the same resume height     *)
(* whichever two are merged first.                                         *)
(***************************************************************************)
\* the three checkpoints of the start merged in the two groupings
LeftFirst(inputs) == extend(extend(inputs[1], inputs[2]), inputs[3])

RightFirst(inputs) == extend(inputs[1], extend(inputs[2], inputs[3]))

SameWhicheverFirst ==
    (other = << >> /\ ~op.loaded)
        => /\ block_number(cp) = block_number(LeftFirst(op.inputs))
           /\ block_number(cp) = block_number(RightFirst(op.inputs))

C9_ResumeIsMinimum ==
    /\ [][op'.name = "extend"
          => block_number(Unwrap(op'.result))
                = Min(block_number(Unwrap(op'.self)), block_number(Unwrap(op'.arg)))]_vars
    /\ []SameWhicheverFirst

(***************************************************************************)
(* C9  (amended) After a.extend(b) the stored discovery height is absent   *)
(* when it is absent in a or in b, and the smaller of the two otherwise;   *)
(* so the resume height is the minimum of the two resume heights when both *)
(* heights are stored, and the smallest creation block of the merged       *)
(* factories (0 without factories) when one is absent.  Merging three      *)
(* checkpoints gives the same resume height whichever two are merged       *)
(* first.                                                                  *)
(***************************************************************************)
C9_ResumeIsOptionMinimum ==
    /\ [][op'.name = "extend"
          => LET a == Unwrap(op'.self)
                 b == Unwrap(op'.arg)
                 m == Unwrap(op'.result)
             IN  IF a.block_number # None /\ b.block_number # None
                 THEN /\ m.block_number # None
                      /\ block_number(m) = Min(block_number(a), block_number(b))
                 ELSE /\ m.block_number = None
                      /\ block_number(m) = MinCreationBlock(m)]_vars
    /\ []SameWhicheverFirst

\* a has no stored height and a factory (resume height MaxHeight + 1), b has
\* the stored height 1 and no factory: the merge resumes above b's height;
\* and all three checkpoints have been merged, b and the third one first
C9_Witness ==
    /\ op.name = "extend" /\ other = << >> /\ ~op.loaded
    /\ op.inputs[1].block_number = None /\ DOMAIN op.inputs[1].factories = {"F"}
    /\ op.inputs[2].block_number = Some(1) /\ DOMAIN op.inputs[2].factories = {}
    /\ op.inputs[3].block_number = Some(MaxHeight)
    /\ Unwrap(op.arg) = extend(op.inputs[2], op.inputs[3])
    /\ block_number(cp) > 1

(***************************************************************************)
(* C10  Merge unions the map entries of both checkpoints: after            *)
(* a.extend(b) every entry of b's factory map, venue map and currency map  *)
(* is present in a.                                                        *)
(***************************************************************************)
C10_MergeUnionsMaps ==
    [][op'.name = "extend"
       => LET b == Unwrap(op'.arg)
              m == Unwrap(op'.result)
          IN  /\ \A k \in DOMAIN b.factories :
                    k \in DOMAIN m.factories /\ m.factories[k] = b.factories[k]
              /\ \A k \in DOMAIN b.amms : k \in DOMAIN m.amms /\ m.amms[k] = b.amms[k]
              /\ \A k \in DOMAIN b.currencies :
                    k \in DOMAIN m.currencies /\ m.currencies[k] = b.currencies[k]]_vars


(***************************************************************************)
(* Further properties of discovery, checked under SpecSync.                *)
(***************************************************************************)
\* the venues that the creation logs on chain in the blocks from..to describe
CreatedIn(from, to) ==
    {l.data[1] : l \in {m \in chain : /\ m.topic0 = PAIR_CREATED_EVENT_SIGNATURE
                                       /\ from <= BlockOf(m) /\ BlockOf(m) <= to}}

(***************************************************************************)
(* C11  Discovery is best-effort: when the log query of one window fails,  *)
(* the window is skipped and discovery still completes successfully with   *)
(* the venues decoded from every other window.                             *)
(***************************************************************************)
C11_DiscoveryBestEffort ==
    [][(op'.name = "find_new_amms" /\ op'.junk = "get_logs")
       => /\ op'.res = "Ok"
          /\ \A a \in DOMAIN cp.amms : a \in DOMAIN cp'.amms]_vars

(***************************************************************************)
(* C12  Discovery never disturbs a known venue: when find_new_amms meets   *)
(* a creation log of an address that is already in the venue map, the      *)
(* tracked venue (reserves, cursor, tokens, fee) is unchanged; only        *)
(* addresses not yet tracked are inserted, with empty reserves.            *)
(***************************************************************************)
C12_KnownVenueUntouched ==
    [][op'.name = "find_new_amms"
       => /\ \A a \in DOMAIN cp.amms : a \in DOMAIN cp'.amms /\ cp'.amms[a] = cp.amms[a]
          /\ \A a \in DOMAIN cp'.amms \ DOMAIN cp.amms :
                /\ op'.res = "Ok"
                /\ a \in CreatedIn(op'.start, op'.latest)
                /\ reserves(cp'.amms[a]) = <<0, 0>>
                /\ last_synced_log(cp'.amms[a]) = <<0, 0>>]_vars

\* a successful discovery scanned the creation log of a venue that holds
\* reserves of an earlier sync
C12_Witness ==
    /\ op.name = "find_new_amms" /\ op.res = "Ok" /\ op.start < op.latest
    /\ \E a \in DOMAIN cp.amms \cap CreatedIn(op.start, op.latest) :
          /\ reserves(cp.amms[a]) # <<0, 0>>
          /\ last_synced_log(cp.amms[a]) # <<0, 0>>

ZeroAddress == "0x0"

\* the `step` sync_currencies passes to batch_get_currency_info
CurrencyStep == 100

\* Currency::is_invalid_token
is_invalid_token_ZeroOnly(currency) == currency.address = ZeroAddress

is_invalid_token(currency) == currency.address = ZeroAddress \/ currency.symbol = ""

\* Currency::data_is_filled
data_is_filled(currency) == currency.symbol # ""

\* AMM::tokens
tokens(amm) == {amm.token_a.address, amm.token_b.address}

\* (a variant that rebuilds the venue around the currency and so loses its
\* reserves and cursor)
set_currency_Rebuild(amm, currency) ==
    IF currency.address \in tokens(amm)
    THEN [amm EXCEPT !.token_a = IF currency.address = @.address THEN currency ELSE @,
                     !.token_b = IF currency.address = @.address
                                    /\ currency.address # amm.token_a.address
                                 THEN currency ELSE @,
                     !.reserve_0 = 0, !.reserve_1 = 0, !.last_synced_log = <<0, 0>>]
    ELSE amm

\* AMM::set_currency
set_currency(amm, currency) ==
    IF currency.address = amm.token_a.address THEN [amm EXCEPT !.token_a = currency]
    ELSE IF currency.address = amm.token_b.address THEN [amm EXCEPT !.token_b = currency]
    ELSE amm

\* the data provider's answers to the batched queries: the symbol of each
\* address, and the addresses that make the query of their chunk fail, with
\* the way it fails (the call fails, the answer does not decode, or the
\* answer has fewer items than the chunk)
Symbols == {"", "SYM"}

FailureKinds == {"call_error", "decode_error", "short"}

Provider(symbols, poison, kind) == [symbols |-> symbols, poison |-> poison, kind |-> kind]

\* Currency::new_with / apply_tokens
Resolved(address, provider) ==
    [address |-> address, symbol |-> provider.symbols[address],
     decimals |-> IF provider.symbols[address] = "" THEN 0 ELSE 18]

\* get_currencies(chunk, middleware)
get_currencies(chunk, provider) ==
    LET addresses == {chunk[i] : i \in 1..Len(chunk)} IN
    IF addresses \cap provider.poison = {}
    THEN [res |-> "Ok", currencies |-> {Resolved(a, provider) : a \in addresses}]
    ELSE IF provider.kind = "call_error" THEN [res |-> "Ok", currencies |-> {}]
    ELSE IF provider.kind = "decode_error" THEN [res |-> "Err", currencies |-> {}]
    ELSE [res |-> "panic", currencies |-> {}]

\* currencies.chunks(batch_size)
Chunks(vec, batch_size) ==
    [i \in 1..((Len(vec) + batch_size - 1) \div batch_size) |->
        SubSeq(vec, (i - 1) * batch_size + 1, Min(i * batch_size, Len(vec)))]

\* the orders in which the HashSet of the requested addresses may be collected
Deduplicated(currencies) == serialize_set({currencies[i] : i \in 1..Len(currencies)})

\* (a variant in which one failed chunk fails the whole call)
batch_get_currency_info_FailFast(vec, batch_size, provider) ==
    LET chunks == Chunks(vec, batch_size)
        answers == [i \in DOMAIN chunks |-> get_currencies(chunks[i], provider)]
    IN  IF \E i \in DOMAIN chunks : answers[i].res = "panic"
        THEN [res |-> "panic", currencies |-> {}, chunks |-> chunks]
        ELSE IF \E i \in DOMAIN chunks :
                    answers[i].res = "Err" \/ {chunks[i][j] : j \in 1..Len(chunks[i])}
                                                  \cap provider.poison # {}
        THEN [res |-> "Err", currencies |-> {}, chunks |-> chunks]
        ELSE [res |-> "Ok", chunks |-> chunks,
              currencies |-> UNION {answers[i].currencies : i \in DOMAIN chunks}]

\* batch_get_currency_info, given the order vec of the deduplicated addresses
batch_get_currency_info(vec, batch_size, provider) ==
    LET chunks == Chunks(vec, batch_size)
        answers == [i \in DOMAIN chunks |-> get_currencies(chunks[i], provider)]
    IN  IF \E i \in DOMAIN chunks : answers[i].res = "panic"
        THEN [res |-> "panic", currencies |-> {}, chunks |-> chunks]
        ELSE [res |-> "Ok", chunks |-> chunks,
              currencies |-> UNION {answers[i].currencies :
                                       i \in {j \in DOMAIN chunks : answers[j].res = "Ok"}}]

\* Checkpoint::remove_invalid_amm
remove_invalid_amm(c) ==
    IF c.currencies_blacklist = {} THEN c
    ELSE [c EXCEPT !.amms =
             [a \in {b \in DOMAIN c.amms : tokens(c.amms[b]) \cap c.currencies_blacklist = {}}
                 |-> c.amms[a]]]

\* the first loop of sync_currencies: the tokens without a currency
missing_currencies(c) ==
    UNION {tokens(c.amms[a]) : a \in DOMAIN c.amms} \ DOMAIN c.currencies

\* amm.set_currency for each token of each venue that the map resolves
FillFrom(amms, currencies, only_unfilled) ==
    [a \in DOMAIN amms |->
        LET fill(amm, t) ==
                IF t.address \in DOMAIN currencies /\ ~(only_unfilled /\ data_is_filled(t))
                THEN set_currency(amm, currencies[t.address]) ELSE amm
        IN  fill(fill(amms[a], amms[a].token_a), amms[a].token_b)]

\* (a variant that stores a currency under its symbol)
InsertValid_BySymbol(currencies, found) ==
    LET valid == {f \in found : ~is_invalid_token(f)}
    IN  [k \in DOMAIN currencies \cup {f.symbol : f \in valid} |->
            IF k \in {f.symbol : f \in valid}
            THEN CHOOSE f \in valid : f.symbol = k
            ELSE currencies[k]]

\* the currency map after the insert loop
InsertValid(currencies, found) ==
    LET valid == {f \in found : ~is_invalid_token(f)}
    IN  [k \in DOMAIN currencies \cup {f.address : f \in valid} |->
            IF k \in {f.address : f \in valid}
            THEN CHOOSE f \in valid : f.address = k
            ELSE currencies[k]]

\* Checkpoint::sync_currencies, given the order vec of the missing addresses
sync_currencies(c, vec, provider) ==
    LET missing == missing_currencies(c)
        c1 == [c EXCEPT !.amms = FillFrom(c.amms, c.currencies, FALSE)]
        b == batch_get_currency_info(vec, CurrencyStep, provider)
        c2 == [c1 EXCEPT !.currencies = InsertValid(c1.currencies, b.currencies)]
        c3 == IF CurrencyStep = 1
              THEN remove_invalid_amm(
                      [c2 EXCEPT !.currencies_blacklist =
                                    @ \cup (missing \ DOMAIN c2.currencies)])
              ELSE c2
    IN  IF b.res = "panic" THEN [c |-> c1, res |-> "panic"]
        ELSE IF b.currencies = {} THEN [c |-> c1, res |-> "Ok"]
        ELSE [c |-> [c3 EXCEPT !.amms = FillFrom(c3.amms, c3.currencies, TRUE)],
              res |-> "Ok"]


(***************************************************************************)
(* SpecBatch: batch_get_currency_info applied to one request.  The request *)
(* is a list of addresses (repetitions allowed), a chunk size, the order   *)
(* in which the deduplicated addresses come out of the HashSet, and the    *)
(* provider's answers.                                                     *)
(***************************************************************************)
RequestAddresses == {"T0", "T1", "T2"}

BatchSizes == {1, 2, CurrencyStep}

\* a request and the provider that answers it
Request(currencies, batch_size, vec, provider) ==
    [currencies |-> currencies, batch_size |-> batch_size, vec |-> vec,
     provider |-> provider]

RequestSymbols ==
    {[a \in RequestAddresses |-> "SYM"],
     [a \in RequestAddresses |-> IF a = "T2" THEN "" ELSE "SYM"]}

BatchOp(name, res, chunks, currencies) ==
    [name |-> name, res |-> res, chunks |-> chunks, currencies |-> currencies]

InitBatch ==
    /\ \E len \in 0..MaxRequest, n \in BatchSizes, sy \in RequestSymbols,
          po \in SUBSET RequestAddresses, k \in FailureKinds :
        \E cs \in [1..len -> RequestAddresses] :
            \E vec \in Deduplicated(cs) :
                /\ po = {} => k = "call_error"
                /\ other = Request(cs, n, vec, Provider(sy, po, k))
    /\ op = BatchOp("new", "Ok", << >>, {})
    /\ venue = Unused /\ kept = Unused /\ height = Unused /\ chain = Unused
    /\ cp = Unused /\ disk = Unused

\* batch_get_currency_info(currencies, Some(batch_size), middleware)
BatchGetCurrencyInfo ==
    /\ op.name = "new"
    /\ \E r \in {batch_get_currency_info(other.vec, other.batch_size, other.provider)} :
          op' = BatchOp("batch_get_currency_info", r.res, r.chunks, r.currencies)
    /\ UNCHANGED <<venue, kept, height, chain, cp, other, disk>>

NextBatch == BatchGetCurrencyInfo

SpecBatch == InitBatch /\ [][NextBatch]_vars


(***************************************************************************)
(* SpecCurrency: a chain with three pairs, created one per block, and a    *)
(* checkpoint, new or loaded from a file that holds a blacklist, on which  *)
(* find_new_amms and sync_currencies are called in any order.              *)
(***************************************************************************)
\* the pairs of the chain, with the block of their creation and their tokens
Pairs == {"A", "B", "Z"}

PairBlock(p) == CASE p = "A" -> 1 [] p = "B" -> 2 [] p = "Z" -> 3

PairTokens(p) ==
    CASE p = "A" -> <<"T0", "T1">> [] p = "B" -> <<"T1", "T2">> [] p = "Z" -> <<ZeroAddress, "T2">>

PairChain ==
    {ChainLog("F", PAIR_CREATED_EVENT_SIGNATURE, PairBlock(p), 0,
              <<p, PairTokens(p)[1], PairTokens(p)[2]>>) : p \in Pairs}

\* the file of a checkpoint that was persisted with a blacklist
PersistedDoc ==
    [block_number |-> None, factories |-> <<UniswapV2Factory("F", 0, 300)>>,
     amms |-> << >>, currencies |-> << >>, currencies_blacklist |-> <<"T2">>]

\* what the last call was and returned, the addresses it asked for and the
\* currencies the provider answered with
CurrencyOp(name, res, missing, found) ==
    [name |-> name, res |-> res, missing |-> missing, found |-> found]

InitCurrency ==
    /\ cp \in {new_from_factories("F" :> UniswapV2Factory("F", 0, 300)),
               from_str(PersistedDoc)}
    /\ chain = PairChain
    /\ height = 0
    /\ op = CurrencyOp("new", "Ok", {}, {})
    /\ venue = Unused /\ kept = Unused /\ other = Unused /\ disk = Unused

\* one more block
Advance ==
    /\ height < MaxChainHeight
    /\ op.res # "panic"
    /\ height' = height + 1
    /\ op' = CurrencyOp("advance", "Ok", {}, {})
    /\ UNCHANGED <<venue, kept, chain, cp, other, disk>>

\* checkpoint.find_new_amms(middleware)
DiscoverPairs ==
    /\ op.res # "panic"
    /\ \E fail \in {NoFailure, HeightFailure} :
        \E r \in {find_new_amms(cp, height, fail)} :
           /\ cp' = r.c
           /\ op' = CurrencyOp("find_new_amms", r.res, {}, {})
    /\ UNCHANGED <<venue, kept, height, chain, other, disk>>

\* checkpoint.sync_currencies(middleware)
SyncCurrencies ==
    /\ op.res # "panic"
    /\ LET missing == missing_currencies(cp) IN
       \E vec \in serialize_set(missing), symbols \in [missing -> Symbols],
          poison \in {{}} \cup {{t} : t \in missing}, kind \in FailureKinds :
           /\ poison = {} => kind = "call_error"
           /\ \E r \in {sync_currencies(cp, vec, Provider(symbols, poison, kind))} :
                 /\ cp' = r.c
                 /\ op' = CurrencyOp("sync_currencies", r.res, missing,
                                     batch_get_currency_info(
                                         vec, CurrencyStep,
                                         Provider(symbols, poison, kind)).currencies)
    /\ UNCHANGED <<venue, kept, height, chain, other, disk>>

NextCurrency == Advance \/ DiscoverPairs \/ SyncCurrencies

SpecCurrency == InitCurrency /\ [][NextCurrency]_vars


(***************************************************************************)
(* C14  Blacklisting: every token address that sync_currencies asked for   *)
(* one address per query (chunks of one address) and that is still         *)
(* unresolved when the call has completed is in the blacklist.             *)
(***************************************************************************)
C14_UnresolvedBlacklisted ==
    [][(op'.name = "sync_currencies" /\ op'.res = "Ok" /\ Cardinality(op'.missing) = 1)
       => \A t \in op'.missing \ DOMAIN cp'.currencies :
             t \in cp'.currencies_blacklist]_vars

(***************************************************************************)
(* C15  Eviction invariant: whenever sync_currencies has completed, no     *)
(* venue of the venue map references a token address of the blacklist,     *)
(* venues discovered after the token was blacklisted and blacklists loaded *)
(* from a persisted checkpoint included.                                   *)
(***************************************************************************)
C15_NoBlacklistedVenue ==
    (op.name = "sync_currencies" /\ op.res = "Ok")
        => \A a \in DOMAIN cp.amms : tokens(cp.amms[a]) \cap cp.currencies_blacklist = {}

(***************************************************************************)
(* C16  Invalid currencies are never stored: starting from an empty        *)
(* currency map, after any sequence of sync_currencies calls no entry of   *)
(* the currency map has an empty symbol or the zero address, whatever the  *)
(* data provider returns.                                                  *)
(***************************************************************************)
C16_NoInvalidCurrency ==
    \A k \in DOMAIN cp.currencies :
        /\ cp.currencies[k].symbol # ""
        /\ cp.currencies[k].address # ZeroAddress
        /\ cp.currencies[k].address = k

\* the provider answered with an empty symbol for one address and with a
\* symbol for the zero address, and a currency of the same answer was stored
C16_Witness ==
    /\ op.name = "sync_currencies" /\ op.res = "Ok"
    /\ \E f \in op.found : f.symbol = "" /\ f.address # ZeroAddress
    /\ \E f \in op.found : f.symbol # "" /\ f.address = ZeroAddress
    /\ \E f \in op.found : f.address \in DOMAIN cp.currencies

(***************************************************************************)
(* C17  Currency resolution is best-effort per chunk:                      *)
(* batch_get_currency_info deduplicates the requested addresses and splits *)
(* them into chunks of chunk_size; when the query of a chunk fails the     *)
(* call still returns Ok with the results of every other chunk, and the    *)
(* addresses of the failed chunk are absent from the result.               *)
(***************************************************************************)
\* the addresses of a chunk
ChunkSet(chunk) == {chunk[i] : i \in 1..Len(chunk)}

C18_UnknownEventRejected ==
    [][(/\ op'.name = "sync_from_log" /\ ~op'.known
        /\ op'.cursor # None
        /\ CursorLT(last_synced_log(venue), Unwrap(op'.cursor)))
          => (op'.res = "InvalidEventSignature" /\ venue' = venue)]_vars

\* a vault that has synced before was offered a later log of an unknown topic
C18_Witness ==
    /\ op.name = "sync_from_log" /\ ~op.known /\ op.res = "InvalidEventSignature"
    /\ op.cursor # None
    /\ CursorLT(last_synced_log(venue), Unwrap(op.cursor))
    /\ venue.kind = "vault" /\ venue.asset_reserve > 0

(***************************************************************************)
(* C19  Missing positional field: for every venue variant, sync_from_log   *)
(* on a log that lacks its block number fails with the missing block       *)
(* number error, on a log that lacks its log index with the missing log    *)
(* index error; the error is returned as a value (the call does not        *)
(* panic) and the venue is unchanged.                                      *)
(***************************************************************************)
C19_MissingFieldIsError ==
    [][(op'.name = "sync_from_log" /\ op'.missing # "none")
          => /\ op'.res # "Panic"
             /\ (op'.missing = "block_number" => op'.res = "LogBlockNumberNotFound")
             /\ (op'.missing = "log_index" => op'.res = "LogIndexNotFound")
             /\ venue' = venue]_vars

(***************************************************************************)
(* SpecSwap: get_amount_out of a pool, applied once to arguments drawn     *)
(* from small sets.  The fee field of the pool is a u32 of at most 100000. *)
(***************************************************************************)
SwapFees == {0, 25, 30, 250, 300}

\* small amounts, and one whose product with the fee factor leaves the width
SwapAmounts == {0, 1, 6, 10, 19, 17000}

SwapReserves == {0, 5, 13, 18, 39, 1000}

SwapOp(name, got) == [name |-> name, out |-> got[1], panicked |-> got[2]]

InitSwap ==
    /\ venue \in {UniswapV2Pool("P", "T0", "T1", fee) : fee \in SwapFees}
    /\ other \in [amount_in : SwapAmounts, reserve_in : SwapReserves,
                  reserve_out : SwapReserves]
    /\ op = SwapOp("new", <<0, FALSE>>)
    /\ kept = Unused /\ height = Unused /\ chain = Unused
    /\ cp = Unused /\ disk = Unused

\* pool.get_amount_out(amount_in, reserve_in, reserve_out)
GetAmountOut ==
    /\ op.name = "new"
    /\ op' = SwapOp("get_amount_out",
                    UniswapV2Pool_get_amount_out(venue, other.amount_in,
                                                 other.reserve_in, other.reserve_out))
    /\ UNCHANGED <<venue, kept, height, chain, cp, other, disk>>

NextSwap == GetAmountOut

SpecSwap == InitSwap /\ [][NextSwap]_vars

\* the call has non-zero reserves and a positive amount_in
SwapCase == other.amount_in > 0 /\ other.reserve_in > 0 /\ other.reserve_out > 0

(***************************************************************************)
(* C20  Constant-product swap formula, as stated: for every pool with      *)
(* non-zero reserves, fee f in basis points (parts per 10000) and          *)
(* amount_in > 0, the amount get_amount_out returns is                     *)
(* floor(amount_in*(10000-f)*reserve_out /                                 *)
(*       (reserve_in*10000 + amount_in*(10000-f))).                        *)
(***************************************************************************)
C20_SwapFormulaBasisPoints ==
    [][(op'.name = "get_amount_out" /\ SwapCase /\ ~op'.panicked)
          => op'.out = (other.amount_in * (10000 - venue.fee) * other.reserve_out)
                          \div (other.reserve_in * 10000
                                  + other.amount_in * (10000 - venue.fee))]_vars

(***************************************************************************)
(* C20  Constant-product swap formula, as computed: the fee field is in    *)
(* units of 1/100000 (300 is 0.30%) and is truncated to whole per-mille,   *)
(* k = floor((10000 - floor(fee/10)) / 10).  For non-zero reserves and     *)
(* amount_in > 0, get_amount_out returns                                   *)
(* floor(amount_in*k*reserve_out / (reserve_in*1000 + amount_in*k)) when   *)
(* the products fit in 256 bits, and panics when they do not.              *)
(***************************************************************************)
C20_SwapFormulaPerMille ==
    [][(op'.name = "get_amount_out" /\ SwapCase)
          => LET k == (10000 - (venue.fee \div 10)) \div 10
                 fits == /\ other.amount_in * k <= U256_MAX
                         /\ other.amount_in * k * other.reserve_out <= U256_MAX
                         /\ other.reserve_in * 1000 + other.amount_in * k <= U256_MAX
             IN  /\ op'.panicked = ~fits
                 /\ fits => op'.out = (other.amount_in * k * other.reserve_out)
                                        \div (other.reserve_in * 1000
                                                + other.amount_in * k)]_vars

\* the example of a 0.30% pool: reserves 1000 and 1000, amount_in 10, result 9
C20_Witness ==
    /\ op.name = "get_amount_out" /\ SwapCase
    /\ venue.fee = 300 /\ other.amount_in = 10
    /\ other.reserve_in = 1000 /\ other.reserve_out = 1000
    /\ op.out = 9 /\ ~op.panicked

(***************************************************************************)
(* SpecSim: one venue with reserves drawn from small sets, and one call of *)
(* simulate_swap or simulate_swap_mut on it.  A pool gets its reserves     *)
(* from a Sync log, a vault from its constructor.                          *)
(***************************************************************************)
SimVaultReserves == {0, 1, 2, 1000}

SimVaultAmounts == {0, 1, 2, 100, 17000}

SimVenues ==
    {[UniswapV2Pool("P", "T0", "T1", 300) EXCEPT !.reserve_0 = r0, !.reserve_1 = r1] :
        r0 \in 0..U128_MAX, r1 \in 0..U128_MAX}
    \cup {[ERC4626Vault("V", "T0", 0, 100) EXCEPT !.vault_reserve = rv,
                                                  !.asset_reserve = ra] :
             rv \in SimVaultReserves, ra \in SimVaultReserves}

SimAmounts(v) == IF v.kind = "pool" THEN AmountVals ELSE SimVaultAmounts

\* the record of a call: its name, its arguments and its outcome
SimOp(name, token_in, amount_in, r) ==
    [name |-> name, token_in |-> token_in, amount_in |-> amount_in,
     res |-> r.res, out |-> r.out]

InitSim ==
    /\ venue \in SimVenues
    /\ op = SimOp("new", "", 0, Result(0, "Ok"))
    /\ kept = Unused /\ height = Unused /\ chain = Unused
    /\ cp = Unused /\ other = Unused /\ disk = Unused

\* venue.simulate_swap(token_in, amount_in)
SimulateSwap ==
    /\ op.name = "new"
    /\ \E token_in \in Tokens, amount_in \in SimAmounts(venue) :
        \E r \in {simulate_swap(venue, token_in, amount_in)} :
        /\ venue' = r.v
        /\ op' = SimOp("simulate_swap", token_in, amount_in, r)
        /\ UNCHANGED <<kept, height, chain, cp, other, disk>>

\* venue.simulate_swap_mut(token_in, amount_in), in a debug or a release build
SimulateSwapMutOnce ==
    /\ op.name = "new"
    /\ \E token_in \in Tokens, amount_in \in SimAmounts(venue),
          build \in {"debug", "release"} :
        \E r \in {simulate_swap_mut(venue, token_in, amount_in, build)} :
        /\ venue' = r.v
        /\ op' = SimOp("simulate_swap_mut", token_in, amount_in, r)
        /\ UNCHANGED <<kept, height, chain, cp, other, disk>>

NextSim == SimulateSwap \/ SimulateSwapMutOnce

SpecSim == InitSim /\ [][NextSim]_vars

\* the reserve on the side of token_in and the one on the other side, as the
\* code chooses them
InputSide(v, token_in) ==
    IF v.kind = "pool"
    THEN (IF v.token_a.address = token_in THEN v.reserve_0 ELSE v.reserve_1)
    ELSE (IF v.vault_token = token_in THEN v.vault_reserve ELSE v.asset_reserve)

OutputSide(v, token_in) ==
    IF v.kind = "pool"
    THEN (IF v.token_a.address = token_in THEN v.reserve_1 ELSE v.reserve_0)
    ELSE (IF v.vault_token = token_in THEN v.asset_reserve ELSE v.vault_reserve)

(***************************************************************************)
(* C21  simulate_swap changes no field of the venue, and simulate_swap_mut *)
(* called in the same pre-state with the same arguments returns exactly    *)
(* the amount simulate_swap returns, while updating the reserves by that   *)
(* trade: the input side changes by amount_in and the output side is       *)
(* reduced by the returned amount.                                         *)
(***************************************************************************)
C21_MutMatchesPure ==
    [][/\ (op'.name = "simulate_swap" => venue' = venue)
       /\ (op'.name = "simulate_swap_mut"
             => \E s \in {simulate_swap(venue, op'.token_in, op'.amount_in)} :
                  /\ op'.res = s.res /\ op'.out = s.out
                  /\ (s.res = "Ok" =>
                        /\ InputSide(venue', op'.token_in)
                              \in {InputSide(venue, op'.token_in) + op'.amount_in,
                                   InputSide(venue, op'.token_in) - op'.amount_in}
                        /\ OutputSide(venue', op'.token_in)
                              = OutputSide(venue, op'.token_in) - s.out))]_vars

(***************************************************************************)
(* C22  Vault fee follows swap direction only: a swap whose token_in is    *)
(* the vault (share) token is charged the withdraw fee and a swap whose    *)
(* token_in is the asset token is charged the deposit fee, also when the   *)
(* share reserve and the asset reserve are numerically equal.              *)
(***************************************************************************)
C22_FeeFollowsDirection ==
    [][(/\ op'.name \in {"simulate_swap", "simulate_swap_mut"}
        /\ venue.kind = "vault" /\ op'.res = "Ok"
        /\ op'.token_in \in {venue.vault_token, venue.asset_token}
        /\ op'.amount_in > 0 /\ venue.vault_reserve > 0)
          => LET fee == IF op'.token_in = venue.vault_token
                        THEN venue.withdraw_fee ELSE venue.deposit_fee
                 q == (op'.amount_in * OutputSide(venue, op'.token_in))
                        \div InputSide(venue, op'.token_in)
             IN  op'.out = (q * (10000 - fee)) \div 10000]_vars

(***************************************************************************)
(* div_uu: the Q64.64 quotient of two U256.  The widths of the source are  *)
(* scaled from 64 to 7 bits a word: a U256 has 28 bits, a u128 has 14, and *)
(* 64 binary places become 7.  Of the six steps that locate the most       *)
(* significant bit of x >> 192 the last three remain (x >> 192 has 7 bits  *)
(* here); the others test thresholds that a 7-bit value never reaches.     *)
(* ruint `+`, `-`, `*` and `<<` keep the low bits of the result.           *)
(***************************************************************************)
WORD == 7

U256_64 == WORD

U256_128 == 2 * WORD

U256_191 == 3 * WORD - 1

U256_192 == 3 * WORD

U256_255 == 4 * WORD - 1

\* U256_0XFFFFFFFFFFFFFFFFFFFFFFFFFFFFFFFFFFFFFFFFFFFFFFFF, the greatest 192-bit value
U256_MASK_192 == 2^U256_192 - 1

\* U256_0XFFFFFFFFFFFFFFFFFFFFFFFFFFFFFFFF, the greatest 128-bit value
U256_MASK_128 == 2^U256_128 - 1

\* the number of values of the scaled U256
UintModulus == 2^(4 * WORD)

\* the Q64.64 representation of 1.0
U128_0X10000000000000000 == 2^U256_64

WrapUint(x) == x % UintModulus

Shl(x, n) == (x % 2^(4 * WORD - n)) * 2^n

Shr(x, n) == x \div (2^n)

\* the position of the most significant bit of x, for x above 192 bits
MostSignificantBit(x) ==
    LET xc0 == Shr(x, U256_192)
        s4 == xc0 >= 16
        xc1 == IF s4 THEN Shr(xc0, 4) ELSE xc0
        msb1 == IF s4 THEN U256_192 + 4 ELSE U256_192
        s2 == xc1 >= 4
        xc2 == IF s2 THEN Shr(xc1, 2) ELSE xc1
        msb2 == IF s2 THEN msb1 + 2 ELSE msb1
    IN  IF xc2 >= 2 THEN msb2 + 1 ELSE msb2

\* the first estimate of the quotient
DivEstimate(x, y) ==
    IF x <= U256_MASK_192
    THEN Shl(x, U256_64) \div y
    ELSE LET msb == MostSignificantBit(x) IN
         Shl(x, U256_255 - msb) \div (Shr(WrapUint(y - 1), msb - U256_191) + 1)

\* the value div_uu returns when the quotient exceeds 128 bits
Saturated_Truncated(answer) == answer % (U256_MASK_128 + 1)

Saturated(answer) == 0

DivOk(val) == [res |-> "Ok", val |-> val]

DivErr(e) == [res |-> e, val |-> 0]

\* the error of a zero divisor
YIsZero_AsRounding == DivErr("RoundingError")

YIsZero == DivErr("YIsZero")

div_uu(x, y) ==
    IF y = 0 THEN YIsZero
    ELSE LET answer == DivEstimate(x, y) IN
         IF answer > U256_MASK_128 THEN DivOk(Saturated(answer))
         ELSE LET hi == WrapUint(answer * Shr(y, U256_128))
                  lo == WrapUint(answer * (y % (U256_MASK_128 + 1)))
                  xh0 == Shr(x, U256_192)
                  xl0 == Shl(x, U256_64)
                  xh1 == IF xl0 < lo THEN WrapUint(xh0 - 1) ELSE xh0
                  xl1 == WrapUint(xl0 - lo)
                  lo2 == Shl(hi, U256_128)
                  xh2 == IF xl1 < lo2 THEN WrapUint(xh1 - 1) ELSE xh1
                  xl2 == WrapUint(xl1 - lo2)
              IN  IF xh2 # Shr(hi, U256_128) THEN DivErr("RoundingError")
                  ELSE LET final == WrapUint(answer + (xl2 \div y)) IN
                       IF final > U256_MASK_128 THEN DivOk(Saturated(final))
                       ELSE DivOk(final)

(***************************************************************************)
(* SpecDiv: div_uu applied once to a numerator and a denominator drawn     *)
(* from the values around the powers of two and around three times them.   *)
(***************************************************************************)
DivValues ==
    {v \in {c * 2^k + d : k \in 0..(4 * WORD), c \in {1, 3}, d \in (-2)..2} :
        v >= 0 /\ v < UintModulus}

DivOp(name, r) == [name |-> name, res |-> r.res, val |-> r.val]

InitDiv ==
    /\ other \in [x : DivValues, y : DivValues]
    /\ op = DivOp("new", DivOk(0))
    /\ venue = Unused /\ kept = Unused /\ height = Unused /\ chain = Unused
    /\ cp = Unused /\ disk = Unused

\* div_uu(x, y)
DivUU ==
    /\ op.name = "new"
    /\ op' = DivOp("div_uu", div_uu(other.x, other.y))
    /\ UNCHANGED <<venue, kept, height, chain, cp, other, disk>>

NextDiv == DivUU

SpecDiv == InitDiv /\ [][NextDiv]_vars

\* floor(r * 2^n / y) for r < y, by long division
RECURSIVE BinaryPlaces(_, _, _)
BinaryPlaces(r, y, n) ==
    IF n = 0 THEN 0
    ELSE IF 2 * r >= y THEN 2^(n - 1) + BinaryPlaces(2 * r - y, y, n - 1)
    ELSE BinaryPlaces(2 * r, y, n - 1)

\* the exact Q64.64 quotient floor(x * 2^64 / y) when it fits in 128 bits,
\* and a value above 128 bits when it does not
ExactQuotient(x, y) ==
    IF x \div y > U256_MASK_128 THEN x \div y
    ELSE (x \div y) * 2^U256_64 + BinaryPlaces(x % y, y, U256_64)

(***************************************************************************)
(* C23  div_uu(x, 0) fails with the divisor-zero error for every x, and    *)
(* div_uu(0, y) returns 0 for every nonzero y.                             *)
(***************************************************************************)
C23_ZeroOperands ==
    (op.name = "div_uu")
       => /\ (other.y = 0 => op.res = "YIsZero")
          /\ (other.x = 0 /\ other.y # 0 => op.res = "Ok" /\ op.val = 0)

\* a numerator above 192 bits was divided by zero
C23_Witness ==
    /\ op.name = "div_uu" /\ other.y = 0 /\ other.x > U256_MASK_192
    /\ op.res = "YIsZero"

(***************************************************************************)
(* C24  Q64.64 division is exact: for every numerator n and nonzero        *)
(* denominator d with floor(n*2^64/d) < 2^128, div_uu(n, d) returns        *)
(* exactly floor(n*2^64/d), on the direct path and on the normalized path, *)
(* and never fails with RoundingError.                                     *)
(***************************************************************************)
C24_DivisionExact ==
    (op.name = "div_uu" /\ other.y # 0
        /\ ExactQuotient(other.x, other.y) <= U256_MASK_128)
       => /\ op.res # "RoundingError"
          /\ op.res = "Ok" /\ op.val = ExactQuotient(other.x, other.y)

(***************************************************************************)
(* C25  Saturation: for every numerator n and nonzero denominator d whose  *)
(* Q64.64 quotient floor(n*2^64/d) does not fit in 128 bits, div_uu        *)
(* returns Ok(0), never an error and never a truncated non-zero value.     *)
(***************************************************************************)
C25_Saturation ==
    (op.name = "div_uu" /\ other.y # 0
        /\ ExactQuotient(other.x, other.y) > U256_MASK_128)
       => (op.res = "Ok" /\ op.val = 0)

\* a quotient above 128 bits whose first estimate was below: the numerator is
\* above 192 bits and the saturation is found after the correction
C25_Witness ==
    /\ op.name = "div_uu" /\ other.y # 0 /\ other.x > U256_MASK_192
    /\ ExactQuotient(other.x, other.y) > U256_MASK_128
    /\ DivEstimate(other.x, other.y) <= U256_MASK_128
    /\ op.res = "Ok" /\ op.val = 0

(***************************************************************************)
(* calculate_price_64_x_64.  Token decimals are u8 and are cast to i8;     *)
(* the subtraction of two i8 and 10u128.pow panic on overflow in a debug   *)
(* build and wrap in a release build; the U256 product panics on overflow  *)
(* in both.  In the widths of div_uu a u128 has 14 bits, so 10^4 is the    *)
(* greatest power of ten that fits (10^38 in the source).                  *)
(***************************************************************************)
U128_LIMIT == U256_MASK_128

U256_LIMIT == UintModulus - 1

\* `d as i8`
AsI8(d) == IF d >= 128 THEN d - 256 ELSE d

\* dividing two reserves into a price
PriceOk(val) == [res |-> "Ok", val |-> val]

PricePanic == [res |-> "Panic", val |-> 0]

\* 10u128.pow(k) in a release build: the low bits of the power, which are
\* all zero from k = 128 on
RECURSIVE WrappingPow10(_)
WrappingPow10(k) ==
    IF k >= U256_128 THEN 0
    ELSE IF k = 0 THEN 1
    ELSE (10 * WrappingPow10(k - 1)) % (U128_LIMIT + 1)

\* the greatest k for which 10^k fits in a u128
MaxPow10 == CHOOSE n \in 0..8 : 10^n <= U128_LIMIT /\ 10^(n + 1) > U128_LIMIT

Pow10Overflows(k) == k > MaxPow10

\* the two reserves after the decimal shift: <<r_0, r_1, panicked>>
NormalizeReserves(decimals_0, decimals_1, reserve_0, reserve_1, build) ==
    LET exact == AsI8(decimals_0) - AsI8(decimals_1)
        decimal_shift == ((exact + 128) % 256) - 128
        k == IF decimal_shift < 0 THEN 0 - decimal_shift ELSE decimal_shift
        pow == WrappingPow10(k)
        low == IF decimal_shift < 0 THEN reserve_0 ELSE reserve_1
    IN  IF build = "debug" /\ (exact # decimal_shift \/ Pow10Overflows(k))
        THEN <<0, 0, TRUE>>
        ELSE IF pow # 0 /\ low > U256_LIMIT \div pow
        THEN <<0, 0, TRUE>>
        ELSE IF decimal_shift < 0
        THEN <<reserve_0 * pow, reserve_1, FALSE>>
        ELSE <<reserve_0, reserve_1 * pow, FALSE>>

\* the price when the reserve divided by is zero
ZeroReservePrice == PriceOk(U128_0X10000000000000000)

\* the division that ends calculate_price_64_x_64: the price of the token
\* whose normalized reserve is r_base
PriceOf(r_base, r_quote) ==
    IF r_base = 0 THEN ZeroReservePrice
    ELSE div_uu(r_quote, r_base)

UniswapV2Pool_calculate_price_64_x_64(p, base_token, build) ==
    LET n == NormalizeReserves(p.token_a.decimals, p.token_b.decimals,
                               p.reserve_0, p.reserve_1, build)
    IN  IF n[3] THEN PricePanic
        ELSE IF base_token = p.token_a.address THEN PriceOf(n[1], n[2])
        ELSE PriceOf(n[2], n[1])

ERC4626Vault_calculate_price_64_x_64(v, base_token, build) ==
    LET n == NormalizeReserves(v.vault_token_decimals, v.asset_token_decimals,
                               v.vault_reserve, v.asset_reserve, build)
    IN  IF n[3] THEN PricePanic
        ELSE IF base_token = v.vault_token THEN PriceOf(n[1], n[2])
        ELSE PriceOf(n[2], n[1])

calculate_price_64_x_64(v, base_token, build) ==
    IF v.kind = "pool" THEN UniswapV2Pool_calculate_price_64_x_64(v, base_token, build)
                       ELSE ERC4626Vault_calculate_price_64_x_64(v, base_token, build)

(***************************************************************************)
(* SpecPrice: one venue with decimals and reserves drawn from small sets,  *)
(* and one call of calculate_price_64_x_64 on it.                          *)
(***************************************************************************)
PriceDecimals == {0, 1, 4, 5, 8, 127, 128, 255}

PricePoolReserves == {0, 1, 1000, 2000, U128_LIMIT}

PriceVaultReserves == {0, 1, 1000, 2000, U256_LIMIT}

PriceVenues ==
    {[UniswapV2Pool("P", "T0", "T1", 300)
        EXCEPT !.token_a.decimals = d0, !.token_b.decimals = d1,
               !.reserve_0 = r0, !.reserve_1 = r1] :
        d0 \in PriceDecimals, d1 \in PriceDecimals,
        r0 \in PricePoolReserves, r1 \in PricePoolReserves}
    \cup {[vault_token_decimals |-> d0, asset_token_decimals |-> d1]
            @@ [ERC4626Vault("V", "T0", 0, 100)
                  EXCEPT !.vault_reserve = r0, !.asset_reserve = r1] :
        d0 \in PriceDecimals, d1 \in PriceDecimals,
        r0 \in PriceVaultReserves, r1 \in PriceVaultReserves}

PriceOp(name, base_token, build, r) ==
    [name |-> name, base_token |-> base_token, build |-> build,
     res |-> r.res, val |-> r.val]

InitPrice ==
    /\ venue \in PriceVenues
    /\ op = PriceOp("new", "", "", PriceOk(0))
    /\ kept = Unused /\ height = Unused /\ chain = Unused
    /\ cp = Unused /\ other = Unused /\ disk = Unused

\* venue.calculate_price_64_x_64(base_token), in a debug or a release build
CalculatePrice ==
    /\ op.name = "new"
    /\ \E base_token \in Tokens, build \in {"debug", "release"} :
        /\ op' = PriceOp("calculate_price_64_x_64", base_token, build,
                         calculate_price_64_x_64(venue, base_token, build))
        /\ UNCHANGED <<venue, kept, height, chain, cp, other, disk>>

NextPrice == CalculatePrice

SpecPrice == InitPrice /\ [][NextPrice]_vars

\* the first and the second token of a venue, their decimals and reserves
FirstToken(v) == IF v.kind = "pool" THEN v.token_a.address ELSE v.vault_token

SecondToken(v) == IF v.kind = "pool" THEN v.token_b.address ELSE v.asset_token

DecimalsOf(v) == IF v.kind = "pool" THEN <<v.token_a.decimals, v.token_b.decimals>>
                 ELSE <<v.vault_token_decimals, v.asset_token_decimals>>

\* the reserve of the base token of the call: the one divided by
BaseReserve(v, base_token) ==
    IF base_token = FirstToken(v) THEN reserves(v)[1] ELSE reserves(v)[2]

(***************************************************************************)
(* C26  Zero-reserve price convention: for a pool or vault whose reserves  *)
(* are both zero the Q64.64 price is 2^64 (1.0) for either base token and  *)
(* no arithmetic error is returned; more generally, when the reserve being *)
(* divided by is zero the price is 1.0 rather than a divide-by-zero        *)
(* failure.                                                                *)
(***************************************************************************)
C26_ZeroReservePrice ==
    (/\ op.name = "calculate_price_64_x_64"
     /\ op.base_token \in {FirstToken(venue), SecondToken(venue)}
     /\ BaseReserve(venue, op.base_token) = 0)
       => (op.res = "Ok" /\ op.val = U128_0X10000000000000000)

\* the difference of the decimals of the two tokens, and the reserve of the
\* token with fewer decimals
DecimalDifference(v) ==
    IF DecimalsOf(v)[1] < DecimalsOf(v)[2] THEN DecimalsOf(v)[2] - DecimalsOf(v)[1]
    ELSE DecimalsOf(v)[1] - DecimalsOf(v)[2]

LowerDecimalsReserve(v) ==
    IF DecimalsOf(v)[1] < DecimalsOf(v)[2] THEN reserves(v)[1] ELSE reserves(v)[2]

\* the reserve of the lower-decimals token times 10^|decimals_a - decimals_b|
\* is a U256
NormalizedFits(v) ==
    \/ LowerDecimalsReserve(v) = 0
    \/ /\ DecimalDifference(v) <= 8
       /\ LowerDecimalsReserve(v) <= U256_LIMIT \div (10^DecimalDifference(v))

\* the two reserves as the normalization is stated
NormalizedReserves(v) ==
    LET n == IF LowerDecimalsReserve(v) = 0 THEN 0
             ELSE LowerDecimalsReserve(v) * 10^DecimalDifference(v)
    IN  IF DecimalsOf(v)[1] < DecimalsOf(v)[2] THEN <<n, reserves(v)[2]>>
        ELSE <<reserves(v)[1], n>>

(***************************************************************************)
(* C27  Decimal normalization: for every pair of token decimals in 0..255  *)
(* the price computation multiplies the reserve of the lower-decimals      *)
(* token by 10^|decimals_a - decimals_b| and leaves the other reserve      *)
(* unchanged before dividing, without overflow or wrap-around of the       *)
(* decimal difference or of the power of ten; with equal decimals the      *)
(* price of token_a is reserve_1/reserve_0.                                *)
(***************************************************************************)
C27_DecimalNormalization ==
    (/\ op.name = "calculate_price_64_x_64"
     /\ op.base_token \in {FirstToken(venue), SecondToken(venue)}
     /\ NormalizedFits(venue))
       => \E e \in {IF op.base_token = FirstToken(venue)
                    THEN PriceOf(NormalizedReserves(venue)[1], NormalizedReserves(venue)[2])
                    ELSE PriceOf(NormalizedReserves(venue)[2], NormalizedReserves(venue)[1])} :
            op.res = e.res /\ op.val = e.val

(***************************************************************************)
(* C28  Deterministic on-disk form: the record that save_to_file writes    *)
(* for a checkpoint is the only record that can be written for a           *)
(* checkpoint with these maps; the order of the persisted lists does not   *)
(* depend on the order in which the maps iterate.  (SpecMerge)             *)
(***************************************************************************)
C28_DeterministicDisk ==
    [][op'.name = "save_to_file"
       => \A doc \in to_string_pretty(cp) : doc = Unwrap(disk')]_vars

(***************************************************************************)
(* SpecPhases: one checkpoint with two discovered pools and one chain of   *)
(* Sync logs, carried through phases (2) and (3) in both orders: cp runs   *)
(* sync_currencies and then sync_amms_reserve, other runs                  *)
(* sync_amms_reserve and then sync_currencies.  The chain, the height and  *)
(* the provider's answers (kept) are the same for both runs.               *)
(***************************************************************************)
\* the chain has Sync logs in blocks 1..MaxPhaseBlock
MaxPhaseBlock == 2

PhaseTokens == {"T0", "T1", "T2"}

\* pool A logs at index 0 of a block, pool B at index 1; the reserves of a
\* log are (block, 1)
PhaseLogs ==
    {SyncLog(p, b, IF p = "A" THEN 0 ELSE 1, b) : p \in Pools, b \in 1..MaxPhaseBlock}

\* the checkpoint after discovery: both pools empty, T1 resolved or not
PhaseCheckpoint(known) ==
    [new_from_factories("F" :> UniswapV2Factory("F", 0, 300))
        EXCEPT !.amms = [p \in Pools |->
                            UniswapV2Pool(p, PoolTokens(p)[1], PoolTokens(p)[2], 300)],
               !.currencies = [t \in known |->
                                  [address |-> t, symbol |-> "SYM", decimals |-> 18]]]

\* what the last call was and returned, and how many phases each run has
\* completed (-1: the run ended in a panic)
PhaseOp(name, res, first, second) ==
    [name |-> name, res |-> res, first |-> first, second |-> second]

InitPhases ==
    /\ chain \in SUBSET PhaseLogs
    /\ height \in 1..(MaxPhaseBlock + 1)
    /\ \E known \in {{}, {"T1"}} :
          /\ cp = PhaseCheckpoint(known)
          /\ other = PhaseCheckpoint(known)
    /\ \E symbols \in [PhaseTokens -> Symbols],
          poison \in {{}, {"T0"}}, kind \in FailureKinds :
          /\ poison = {} => kind = "call_error"
          /\ kept = Provider(symbols, poison, kind)
    /\ op = PhaseOp("new", "Ok", 0, 0)
    /\ venue = Unused /\ disk = Unused

Completed(done, res) == IF res = "panic" THEN -1 ELSE done + 1

\* run 1, phase (2): cp.sync_currencies(middleware)
CurrenciesFirst ==
    /\ op.first = 0
    /\ \E vec \in serialize_set(missing_currencies(cp)) :
        \E r \in {sync_currencies(cp, vec, kept)} :
           /\ cp' = r.c
           /\ op' = PhaseOp("sync_currencies", r.res, Completed(0, r.res), op.second)
    /\ UNCHANGED <<venue, kept, height, chain, other, disk>>

\* run 1, phase (3): cp.sync_amms_reserve(middleware)
ReserveSecond ==
    /\ op.first = 1
    /\ \E r \in {sync_amms_reserve(cp, height, NoFailure, {})} :
           /\ cp' = [cp EXCEPT !.amms = r.amms]
           /\ op' = PhaseOp("sync_amms_reserve", r.res, 2, op.second)
    /\ UNCHANGED <<venue, kept, height, chain, other, disk>>

\* run 2, phase (3): other.sync_amms_reserve(middleware)
ReserveFirst ==
    /\ op.second = 0
    /\ \E r \in {sync_amms_reserve(other, height, NoFailure, {})} :
           /\ other' = [other EXCEPT !.amms = r.amms]
           /\ op' = PhaseOp("sync_amms_reserve", r.res, op.first, 1)
    /\ UNCHANGED <<venue, kept, height, chain, cp, disk>>

\* run 2, phase (2): other.sync_currencies(middleware)
CurrenciesSecond ==
    /\ op.second = 1
    /\ \E vec \in serialize_set(missing_currencies(other)) :
        \E r \in {sync_currencies(other, vec, kept)} :
           /\ other' = r.c
           /\ op' = PhaseOp("sync_currencies", r.res, op.first, Completed(1, r.res))
    /\ UNCHANGED <<venue, kept, height, chain, cp, disk>>

NextPhases == CurrenciesFirst \/ ReserveSecond \/ ReserveFirst \/ CurrenciesSecond

SpecPhases == InitPhases /\ [][NextPhases]_vars

\* reserves and cursor of every venue of a checkpoint
ReplayState(c) ==
    [a \in DOMAIN c.amms |->
        <<c.amms[a].reserve_0, c.amms[a].reserve_1, last_synced_log(c.amms[a])>>]

(***************************************************************************)
(* C29  Replay does not depend on metadata: from the same checkpoint and   *)
(* the same chain, the run that calls sync_amms_reserve before             *)
(* sync_currencies leaves every venue with the same reserves and cursor as *)
(* the run that calls it after sync_currencies.  (SpecPhases)              *)
(***************************************************************************)
C29_ReplayIgnoresMetadata ==
    (op.first = 2 /\ op.second = 2) => ReplayState(cp) = ReplayState(other)

\* both runs are complete, logs were replayed into both pools, and the
\* currency phase resolved token metadata that was missing during the replay
\* of the run that synced reserves first
C29_Witness ==
    /\ op.first = 2 /\ op.second = 2
    /\ \A a \in DOMAIN cp.amms : last_synced_log(cp.amms[a])[1] > 0
    /\ \E a \in DOMAIN cp.amms : cp.amms[a].reserve_0 > 1
    /\ \E a \in DOMAIN cp.amms : data_is_filled(cp.amms[a].token_a)
    /\ DOMAIN cp.currencies # {"T1"}

(***************************************************************************)
(* SpecWindow: one call of batch_request_logs.  The sub-range requests of  *)
(* the step are in flight together and complete one at a time, in any      *)
(* order; each answer lists its logs in any order.  other is the HashMap   *)
(* `logs` of the call and kept is the list it returns.                     *)
(***************************************************************************)
\* the chain holds at most MaxWindowLogs Sync logs
MaxWindowLogs == 3

WindowStart == 1

\* the last block of the step: one, two or three sub-range requests
WindowEnds == {WindowStart + SubStep - 1, WindowStart + SubStep,
               WindowStart + 2 * SubStep + 1}

\* blocks that hold logs: the first block, a block that two requests cover,
\* a block of the second request, and the last block asked for
WindowBlocks == {WindowStart, WindowStart + SubStep, WindowStart + SubStep + 1,
                 WindowStart + 2 * SubStep + 1}

WindowLogs ==
    {SyncLog(p, b, i, 1) : p \in Pools, b \in WindowBlocks, i \in 0..1}

\* a chain: no two logs at one (block, index)
WindowChains ==
    {c \in SUBSET WindowLogs :
        /\ Cardinality(c) <= MaxWindowLogs
        /\ \A l, m \in c : CursorOf(l) = CursorOf(m) => l = m}

\* the call in progress or returned: its range, the requests in flight, the
\* request the provider fails (0: none), and whether a request completed
\* before a request for earlier blocks
WindowOp(name, res, end_block, pending, fail, unordered) ==
    [name |-> name, res |-> res, end_block |-> end_block, pending |-> pending,
     fail |-> fail, unordered |-> unordered]

InitWindow ==
    /\ chain \in WindowChains
    /\ \E end_block \in WindowEnds :
        \E fail \in {0} \cup SubQueries(WindowStart, end_block) :
          op = WindowOp("new", "Ok", end_block, SubQueries(WindowStart, end_block),
                        fail, FALSE)
    /\ other = EmptyMap
    /\ kept = None
    /\ venue = Unused /\ height = Unused /\ cp = Unused /\ disk = Unused

\* (a variant in which the log that arrives last replaces the one present)
KeepGreatest_LastWins(logs, log) == (log.address :> log) @@ logs

\* the match on logs.get(&log.address)
KeepGreatest(logs, log) ==
    IF log.address \notin DOMAIN logs THEN (log.address :> log) @@ logs
    ELSE IF CursorLT(CursorOf(logs[log.address]), CursorOf(log))
    THEN [logs EXCEPT ![log.address] = log]
    ELSE logs

\* `for log in result?`
RECURSIVE FoldResult(_, _)
FoldResult(logs, result) ==
    IF result = << >> THEN logs
    ELSE FoldResult(KeepGreatest(logs, Head(result)), Tail(result))

IsSorted(vec) ==
    \A i, j \in 1..Len(vec) : i < j => CursorLE(CursorOf(vec[i]), CursorOf(vec[j]))

\* logs.into_iter().collect() followed by the stable sort_by
CollectSorted(logs) == {vec \in serialize_map_to_vec(logs) : IsSorted(vec)}

\* futures.next().await yields the answer of one request; with the last
\* answer the loop ends and the call sorts and returns
Complete ==
    /\ op.res = "Ok" /\ op.pending # {}
    /\ \E i \in op.pending :
        LET rest == op.pending \ {i}
            unordered == op.unordered \/ \E j \in rest : j < i
        IN  IF op.fail = i
            THEN /\ op' = WindowOp("batch_request_logs", "MiddlewareError",
                                   op.end_block, rest, op.fail, unordered)
                 /\ UNCHANGED <<other, kept>>
            ELSE \E result \in serialize_set(
                                  get_logs({SYNC_EVENT_SIGNATURE}, i,
                                           Min(i + SubStep, op.end_block))) :
                   /\ other' = FoldResult(other, result)
                   /\ IF rest = {}
                      THEN \E vec \in CollectSorted(other') :
                             /\ kept' = Some(vec)
                             /\ op' = WindowOp("batch_request_logs", "Ok",
                                               op.end_block, rest, op.fail, unordered)
                      ELSE /\ kept' = kept
                           /\ op' = WindowOp("get_logs", "Ok", op.end_block, rest,
                                             op.fail, unordered)
    /\ UNCHANGED <<venue, height, chain, cp, disk>>

NextWindow == Complete

SpecWindow == InitWindow /\ [][NextWindow]_vars

\* all logs returned for the step
StepLogs == {l \in chain : BlockOf(l) >= WindowStart /\ BlockOf(l) <= op.end_block}

Returned == op.name = "batch_request_logs" /\ op.res = "Ok"

(***************************************************************************)
(* C30  Window reduction under unordered completion: in whatever order the *)
(* sub-range requests of a step complete, batch_request_logs returns       *)
(* exactly one log per contract address that has a log in the step, that   *)
(* log is the one with the greatest (block, index) among the logs of the   *)
(* address in the step, and the returned list is sorted ascending by       *)
(* cursor.  (SpecWindow)                                                   *)
(***************************************************************************)
C30_WindowReduction ==
    Returned =>
        LET vec == Unwrap(kept) IN
        /\ {vec[i].address : i \in 1..Len(vec)} = {l.address : l \in StepLogs}
        /\ \A i, j \in 1..Len(vec) : vec[i].address = vec[j].address => i = j
        /\ \A i \in 1..Len(vec) :
              /\ vec[i] \in StepLogs
              /\ \A l \in StepLogs :
                    l.address = vec[i].address => CursorLE(CursorOf(l), CursorOf(vec[i]))
        /\ IsSorted(vec)
        /\ vec = SortByCursor(ReduceByAddress(StepLogs))

\* a call returned after a request for later blocks completed before one
\* for earlier blocks, with the logs of one address spread over two
\* requests and a log in the block that two requests cover
C30_Witness ==
    /\ Returned /\ op.unordered
    /\ Len(Unwrap(kept)) = 2
    /\ \E l, m \in StepLogs :
          /\ l.address = m.address
          /\ BlockOf(l) < WindowStart + SubStep /\ BlockOf(m) > WindowStart + SubStep
    /\ \E l \in StepLogs : BlockOf(l) = WindowStart + SubStep

(***************************************************************************)
(* SpecReplay: the logs of one logical step for one venue, replayed once   *)
(* as batch_request_logs hands them to the loop of sync_amms_reserve (the  *)
(* greatest-cursor log of the address only) and once in full, in ascending *)
(* cursor order.  chain holds the logs of the step.                        *)
(***************************************************************************)
\* a step holds at most MaxReplayLogs logs of the venue
MaxReplayLogs == 3

\* a pool as discovered, a vault as constructed, and each with reserves and
\* a cursor from an earlier step
ReplayVenues ==
    {UniswapV2Pool("A", "T0", "T1", 300),
     [UniswapV2Pool("A", "T0", "T1", 300)
         EXCEPT !.reserve_0 = 1, !.reserve_1 = 1, !.last_synced_log = <<1, 0>>],
     ERC4626Vault("A", "T0", 0, 100),
     [ERC4626Vault("A", "T0", 0, 100)
         EXCEPT !.vault_reserve = 2, !.asset_reserve = 2, !.last_synced = <<1, 0>>]}

\* the logs a venue may emit in blocks 1 and 2
ReplayLogsOf(v) ==
    {ChainLog("A", t, b, i, <<n, 1>>) :
        t \in sync_on_event_signatures(v), b \in 1..2, i \in 0..1, n \in 1..2}

ReplayOp(name, reduced, full) == [name |-> name, reduced |-> reduced, full |-> full]

InitReplay ==
    /\ venue \in ReplayVenues
    /\ chain \in {c \in SUBSET ReplayLogsOf(venue) :
                     /\ Cardinality(c) <= MaxReplayLogs
                     /\ \A l, m \in c : CursorOf(l) = CursorOf(m) => l = m}
    /\ op = ReplayOp("new", None, None)
    /\ kept = Unused /\ height = Unused /\ cp = Unused
    /\ other = Unused /\ disk = Unused

\* the replay loop of one step, on the reduced list and on the full list
ReplayStep ==
    /\ op.name = "new"
    /\ \E r \in {ReplayLogs("A" :> venue, SortByCursor(ReduceByAddress(chain)), 0, 0)},
          f \in {ReplayLogs("A" :> venue, SortByCursor(chain), 0, 0)} :
          op' = ReplayOp("replay", Some([v |-> r.amms["A"], res |-> r.res]),
                         Some([v |-> f.amms["A"], res |-> f.res]))
    /\ UNCHANGED <<venue, kept, height, chain, cp, other, disk>>

NextReplay == ReplayStep

SpecReplay == InitReplay /\ [][NextReplay]_vars

(***************************************************************************)
(* C31  Final-state-only replay is correct for current reserves: replaying *)
(* only the greatest-cursor log of a venue in a step leaves the venue with *)
(* the same reserves and cursor as replaying every log of the step in      *)
(* ascending cursor order, for pools (Sync) and for vaults                 *)
(* (Deposit/Withdraw).  (SpecReplay)                                       *)
(***************************************************************************)
C31_ReducedReplayEqualsFull ==
    op.name = "replay" =>
        /\ reserves(Unwrap(op.reduced).v) = reserves(Unwrap(op.full).v)
        /\ last_synced_log(Unwrap(op.reduced).v) = last_synced_log(Unwrap(op.full).v)

(***************************************************************************)
(* SpecStart: one call of sync_amms_reserve on a checkpoint with one or    *)
(* two factories and up to two pools that were synced up to some block or  *)
(* never; op records the first block the call asks the provider for.       *)
(***************************************************************************)
\* greatest block of a venue cursor and of a factory creation
MaxStartBlock == 2

\* greatest latest block the provider reports
StartLatest == 6

\* a pool that was synced up to block h (never, when h = 0)
SyncedPool(p, h) ==
    IF h = 0 THEN UniswapV2Pool(p, PoolTokens(p)[1], PoolTokens(p)[2], 300)
    ELSE [UniswapV2Pool(p, PoolTokens(p)[1], PoolTokens(p)[2], 300)
             EXCEPT !.reserve_0 = 1, !.reserve_1 = 1, !.last_synced_log = <<h, 0>>]

StartOp(name, res, first_query) == [name |-> name, res |-> res, first_query |-> first_query]

InitStart ==
    /\ \E tracked \in SUBSET Pools, created \in [{"F", "G"} -> 0..MaxStartBlock],
          registered \in {{"F"}, {"F", "G"}} :
        \E synced \in [tracked -> 0..MaxStartBlock] :
          /\ created["G"] = 0 \/ "G" \in registered
          /\ cp = [new_from_factories(
                       [f \in registered |-> UniswapV2Factory(f, created[f], 300)])
                      EXCEPT !.amms = [p \in tracked |-> SyncedPool(p, synced[p])]]
    /\ height \in 0..StartLatest
    /\ chain \in {{}, {SyncLog("A", MaxStartBlock + 2, 0, 1)}}
    /\ op = StartOp("new", "Ok", None)
    /\ venue = Unused /\ kept = Unused /\ other = Unused /\ disk = Unused

\* from_block of the first get_logs request of sync_amms_reserve, if any
FirstQuery(c, latest_block) ==
    LET start_block == last_synced_log_block(c) + 1 IN
    IF start_block >= latest_block THEN None
    ELSE Some(MinOf(SubQueries(start_block, Min(start_block + SyncStep, latest_block))))

\* checkpoint.sync_amms_reserve(middleware)
SyncFromStart ==
    /\ op.name = "new"
    /\ \E r \in {sync_amms_reserve(cp, height, NoFailure, {})} :
          /\ cp' = [cp EXCEPT !.amms = r.amms]
          /\ op' = StartOp("sync_amms_reserve", r.res, FirstQuery(cp, height))
    /\ UNCHANGED <<venue, kept, height, chain, other, disk>>

NextStart == SyncFromStart

SpecStart == InitStart /\ [][NextStart]_vars

\* cursor heights of the tracked venues
CursorHeights(c) == {last_synced_log(c.amms[a])[1] : a \in DOMAIN c.amms}

NeverSynced(c) == \A h \in CursorHeights(c) : h = 0

MaxLoopBlock == 5

MaxLoopStep == 3

LoopBlocks == UNION {{k * SyncStep + b, k * SubStep + b} :
                        k \in 0..2, b \in 0..MaxLoopBlock}

LoopOp(name, loop, start, from_block, to_block, step) ==
    [name |-> name, loop |-> loop, start |-> start, from_block |-> from_block,
     to_block |-> to_block, step |-> step]

InitLoops ==
    /\ \E loop \in {"discovery", "sync", "batch"} :
        \E from_block \in (IF loop = "discovery" THEN 0..MaxLoopBlock ELSE LoopBlocks),
           to_block \in (IF loop = "discovery" THEN 0..MaxLoopBlock ELSE LoopBlocks),
           step \in (CASE loop = "discovery" -> 1..MaxLoopStep
                       [] loop = "sync" -> {SyncStep}
                       [] loop = "batch" -> {SubStep}) :
          op = LoopOp("new", loop, from_block, from_block, to_block, step)
    /\ kept = {}
    /\ venue = Unused /\ height = Unused /\ chain = Unused /\ cp = Unused
    /\ other = Unused /\ disk = Unused

Running == op.name \in {"new", "window"}

\* (a variant of `from_block += step` that leaves the loop variable alone)
NextFromBlock_Stuck(from_block, step) == from_block

\* `from_block += step`
NextFromBlock(from_block, step) == from_block + step

\* get_empty_pools_from_logs: one turn of `while from_block < to_block`
DiscoveryWindow ==
    /\ Running /\ op.loop = "discovery"
    /\ op.from_block < op.to_block
    /\ LET target_block == Min(op.from_block + op.step - 1, op.to_block) IN
       /\ kept' = kept \cup {<<op.from_block, target_block>>}
       /\ op' = [op EXCEPT !.name = "window",
                           !.from_block = NextFromBlock(op.from_block, op.step)]
    /\ UNCHANGED <<venue, height, chain, cp, other, disk>>

\* get_empty_pools_from_logs: the loop is left, Ok((aggregated_amms, to_block))
DiscoveryReturn ==
    /\ Running /\ op.loop = "discovery"
    /\ ~(op.from_block < op.to_block)
    /\ op' = [op EXCEPT !.name = "done"]
    /\ UNCHANGED <<venue, kept, height, chain, cp, other, disk>>

\* sync_amms_reserve: one turn of `loop`, with its batch_request_logs call
SyncWindow ==
    /\ Running /\ op.loop = "sync"
    /\ ~(op.from_block >= op.to_block)
    /\ LET target_block == Min(op.from_block + op.step, op.to_block) IN
       /\ kept' = kept \cup {<<op.from_block, target_block>>}
       /\ op' = [op EXCEPT !.name = "window", !.from_block = target_block + 1]
    /\ UNCHANGED <<venue, height, chain, cp, other, disk>>

\* sync_amms_reserve: `break`, Ok(())
SyncReturn ==
    /\ Running /\ op.loop = "sync"
    /\ op.from_block >= op.to_block
    /\ op' = [op EXCEPT !.name = "done"]
    /\ UNCHANGED <<venue, kept, height, chain, cp, other, disk>>

\* batch_request_logs: one item of (start_block..=end_block).step_by(step)
SubRange ==
    /\ Running /\ op.loop = "batch"
    /\ op.from_block <= op.to_block
    /\ kept' = kept \cup {<<op.from_block, Min(op.from_block + op.step, op.to_block)>>}
    /\ op' = [op EXCEPT !.name = "window",
                        !.from_block = NextFromBlock(op.from_block, op.step)]
    /\ UNCHANGED <<venue, height, chain, cp, other, disk>>

\* batch_request_logs: the iterator is exhausted
SubRangesDone ==
    /\ Running /\ op.loop = "batch"
    /\ ~(op.from_block <= op.to_block)
    /\ op' = [op EXCEPT !.name = "done"]
    /\ UNCHANGED <<venue, kept, height, chain, cp, other, disk>>

NextLoops == DiscoveryWindow \/ DiscoveryReturn \/ SyncWindow \/ SyncReturn
             \/ SubRange \/ SubRangesDone

SpecLoops == InitLoops /\ [][NextLoops]_vars

\* every turn of a loop that can be taken is taken (each request returns)
SpecLoopsFair == SpecLoops /\ WF_vars(NextLoops)

\* the blocks of a set of ranges
Covered(ranges) == UNION {q[1]..q[2] : q \in ranges}

(***************************************************************************)
(* C33  Discovery window coverage: for from_block <= to_block and          *)
(* window_size >= 1 the ranges that get_empty_pools_from_logs requests are *)
(* consecutive and pairwise disjoint, each spans at most window_size       *)
(* blocks, and their union is every block from from_block up to and        *)
(* including the height that is returned as the highest block scanned.     *)
(* (SpecLoops)                                                             *)
(***************************************************************************)
C33_WindowsCoverScannedRange ==
    (op.name = "done" /\ op.loop = "discovery" /\ op.start <= op.to_block) =>
        /\ \A q \in kept : q[1] <= q[2] /\ q[2] - q[1] + 1 <= op.step
        /\ \A p, q \in kept : p # q => (p[2] < q[1] \/ q[2] < p[1])
        /\ \A q \in kept : q[1] = op.start \/ \E p \in kept : p[2] + 1 = q[1]
        /\ Covered(kept) = op.start..op.to_block

(***************************************************************************)
(* C40  Termination: for every start block, every finite height and every  *)
(* window size >= 1, and provided every request returns, the window loops  *)
(* of sync_amms_reserve, of get_empty_pools_from_logs and of               *)
(* batch_request_logs are left after finitely many turns.                  *)
(* (SpecLoopsFair)                                                         *)
(***************************************************************************)
C40_LoopsTerminate == <>(op.name = "done")

\* a loop was left after it went through more than two windows
C40_Witness ==
    /\ op.name = "done"
    /\ Cardinality(kept) > 2
    /\ op.from_block > op.start

(***************************************************************************)
(* SpecFilter: FactoryHelper::amm_created_event_filter on a map of         *)
(* registered factories, for every order in which the map iterates.        *)
(***************************************************************************)
FactoryAddresses == {"F", "G", "H"}

\* UniswapV2Factory::amm_created_event_signature
amm_created_event_signature(factory) == PAIR_CREATED_EVENT_SIGNATURE

\* the loop over self.factories in the order vec of its keys: a factory
\* whose address was seen is skipped, else its signature is pushed
RECURSIVE EventSignatures(_, _, _, _)
EventSignatures(factories, vec, factories_set, event_signatures) ==
    IF vec = << >> THEN event_signatures
    ELSE LET factory == factories[Head(vec)] IN
         IF factory.address \in factories_set
         THEN EventSignatures(factories, Tail(vec), factories_set, event_signatures)
         ELSE EventSignatures(factories, Tail(vec),
                              factories_set \cup {factory.address},
                              Append(event_signatures,
                                     amm_created_event_signature(factory)))

FilterOp(name, vec, topic0) == [name |-> name, vec |-> vec, topic0 |-> topic0]

\* the registered factories: any keys, each factory with any address
InitFilter ==
    /\ \E keys \in SUBSET FactoryAddresses :
        \E address \in [keys -> FactoryAddresses], created \in [keys -> 0..1] :
          other = [k \in keys |-> UniswapV2Factory(address[k], created[k], 300)]
    /\ op = FilterOp("new", << >>, << >>)
    /\ venue = Unused /\ kept = Unused /\ height = Unused /\ chain = Unused
    /\ cp = Unused /\ disk = Unused

\* FactoryHelper::new(factories).amm_created_event_filter()
AmmCreatedEventFilter ==
    /\ op.name = "new"
    /\ \E vec \in serialize_set(DOMAIN other) :
          op' = FilterOp("amm_created_event_filter", vec,
                         EventSignatures(other, vec, {}, << >>))
    /\ UNCHANGED <<venue, kept, height, chain, cp, other, disk>>

NextFilter == AmmCreatedEventFilter

SpecFilter == InitFilter /\ [][NextFilter]_vars

(***************************************************************************)
(* C34  The creation-event filter contains each distinct creation-event    *)
(* signature of the registered factories exactly once, however many        *)
(* registered factories share the signature.  (SpecFilter)                 *)
(***************************************************************************)
C34_SignaturesDeduplicated ==
    op.name = "amm_created_event_filter" =>
        \A sig \in {amm_created_event_signature(other[k]) : k \in DOMAIN other} :
            Cardinality({i \in 1..Len(op.topic0) : op.topic0[i] = sig}) = 1

(***************************************************************************)
(* C35  The cursor check precedes event classification: for every venue    *)
(* variant, sync_from_log on a log whose cursor is not strictly greater    *)
(* than the venue's cursor fails with LogAlreadySynced whatever the event  *)
(* signature or payload of the log (an unrecognized signature included),   *)
(* and the venue is unchanged.  (SpecVenue)                                *)
(***************************************************************************)
C35_CursorCheckFirst ==
    [][(/\ op'.name = "sync_from_log"
        /\ op'.cursor # None
        /\ CursorLE(Unwrap(op'.cursor), last_synced_log(venue)))
       => (op'.res = "LogAlreadySynced" /\ venue' = venue)]_vars

(***************************************************************************)
(* SpecRecover: a checkpoint that tracks both pools from the start, a      *)
(* chain of Sync logs in the first blocks of two logical steps, and        *)
(* sync_amms_reserve called again and again; a call may meet a failed      *)
(* request or a log that does not apply.  op remembers whether an earlier  *)
(* call was aborted.                                                       *)
(***************************************************************************)
\* the chain has logs in blocks 1..MaxRecoverBlock and in block SyncStep + 3
MaxRecoverBlock == 2

RecoverBlocks == (1..MaxRecoverBlock) \cup {SyncStep + 3}

\* pool A logs at index 0 of a block, pool B at index 1; the reserves of a
\* log are (2, 1) in block 1 and (1, 1) elsewhere
RecoverLogs ==
    {SyncLog(p, b, IF p = "A" THEN 0 ELSE 1, IF b = 1 THEN 2 ELSE 1) :
        p \in Pools, b \in RecoverBlocks}

RecoverOp(name, res, start, latest, junk, applied, aborted) ==
    [name |-> name, res |-> res, start |-> start, latest |-> latest, junk |-> junk,
     applied |-> applied, aborted |-> aborted]

InitRecover ==
    /\ chain \in SUBSET RecoverLogs
    /\ height \in {MaxRecoverBlock + 1, SyncStep + 4}
    /\ cp = PhaseCheckpoint({})
    /\ op = RecoverOp("new", "Ok", 0, 0, "none", 0, FALSE)
    /\ venue = Unused /\ kept = Unused /\ other = Unused /\ disk = Unused

\* an aborted call: the provider failed a get_logs request or returned a
\* log that does not apply
Aborted(r, fail) == r.res # "Ok" /\ fail.at # "get_block_number"

\* checkpoint.sync_amms_reserve(middleware)
SyncAgain ==
    LET start_block == last_synced_log_block(cp) + 1 IN
    \E fail \in SyncFailures(start_block, height),
       extra \in {{}} \cup {{l} : l \in JunkLogs(cp, start_block)} :
        /\ extra # {} => fail = NoFailure
        /\ \E r \in {sync_amms_reserve(cp, height, fail, extra)} :
             /\ cp' = [cp EXCEPT !.amms = r.amms]
             /\ op' = RecoverOp("sync_amms_reserve", r.res, start_block, height,
                                IF extra = {} THEN "none"
                                ELSE JunkKind(CHOOSE l \in extra : TRUE),
                                r.applied, op.aborted \/ Aborted(r, fail))
             /\ UNCHANGED <<venue, kept, height, chain, other, disk>>

NextRecover == SyncAgain

SpecRecover == InitRecover /\ [][NextRecover]_vars

\* the last block the syncs have asked for, after a call that succeeded
SyncedHeight(o) ==
    IF o.start >= o.latest THEN o.start - 1 ELSE CoveredTo(o.start, o.latest)

(***************************************************************************)
(* C36  Recovery after an aborted sync: when a sync_amms_reserve call was  *)
(* aborted part-way (a failed request, or an error on one log after other  *)
(* logs of the step were applied), a later sync_amms_reserve call that     *)
(* succeeds leaves every tracked venue with the reserves of its            *)
(* greatest-cursor log on chain up to the synced height; no log of a venue *)
(* is skipped for good.  (SpecRecover)                                     *)
(***************************************************************************)
C36_RecoveryAfterAbort ==
    (/\ op.name = "sync_amms_reserve" /\ op.res = "Ok"
     /\ op.junk = "none" /\ op.aborted)
    => \A a \in DOMAIN cp.amms :
          LET history == VenueHistory(a, 0, SyncedHeight(op)) IN
          IF history = {} THEN reserves(cp.amms[a]) = <<0, 0>>
          ELSE Holds(cp.amms[a], Latest(history))

\* venue v with the reserves and the cursor of venue w
WithReplayStateOf(v, w) ==
    [v EXCEPT !.reserve_0 = w.reserve_0, !.reserve_1 = w.reserve_1,
              !.last_synced_log = w.last_synced_log]

(***************************************************************************)
(* C37  Frame of reserve sync: sync_amms_reserve changes only the reserves *)
(* and cursors of venues already in the venue map; it adds and removes no  *)
(* venue, leaves the factories, the currencies, the blacklist and the      *)
(* resume height as they are, and a venue changes only by a log of its own *)
(* address (a log of an untracked address changes nothing).  (SpecSync)    *)
(***************************************************************************)
C37_ReserveSyncFrame ==
    [][op'.name = "sync_amms_reserve"
       => /\ DOMAIN cp'.amms = DOMAIN cp.amms
          /\ cp'.factories = cp.factories
          /\ cp'.currencies = cp.currencies
          /\ cp'.currencies_blacklist = cp.currencies_blacklist
          /\ cp'.block_number = cp.block_number
          /\ \A a \in DOMAIN cp.amms :
                /\ WithReplayStateOf(cp'.amms[a], cp.amms[a]) = cp.amms[a]
                /\ cp'.amms[a] # cp.amms[a]
                      => \E l \in SyncLogs : l.address = a /\ Holds(cp'.amms[a], l)]_vars

\* a sync applied a log of a tracked venue while the answer of the provider
\* held a Sync log of a pool that is not tracked
C37_Witness ==
    /\ op.name = "sync_amms_reserve" /\ op.res = "Ok" /\ op.applied > 0
    /\ \E l \in SyncLogs :
          /\ l.address \notin DOMAIN cp.amms
          /\ op.start <= BlockOf(l) /\ BlockOf(l) <= CoveredTo(op.start, op.latest)

\* the amount get_amount_out promises for amount_in of the token on side a_in
AmountOutOf(p, a_in, amount_in) ==
    IF a_in THEN UniswapV2Pool_get_amount_out(p, amount_in, p.reserve_0, p.reserve_1)[1]
            ELSE UniswapV2Pool_get_amount_out(p, amount_in, p.reserve_1, p.reserve_0)[1]

NonZeroPool(v) == v.kind = "pool" /\ v.reserve_0 > 0 /\ v.reserve_1 > 0

\* get_amount_out stays strictly below the reserve it is paid from
OutBelowReserve(p) ==
    \A amount_in \in AmountVals \ {0} :
        /\ AmountOutOf(p, TRUE, amount_in) < p.reserve_1
        /\ AmountOutOf(p, FALSE, amount_in) < p.reserve_0

(***************************************************************************)
(* C38  Constant-product safety: for a pool with non-zero reserves and any *)
(* amount_in > 0, get_amount_out is strictly less than reserve_out, and a  *)
(* simulate_swap_mut call leaves both reserves strictly positive and does  *)
(* not decrease the product reserve_0 * reserve_1.  (SpecVenue)            *)
(***************************************************************************)
C38_ConstantProductSafety ==
    [][(op'.name = "simulate_swap_mut" /\ NonZeroPool(venue))
          => /\ OutBelowReserve(venue)
             /\ venue'.reserve_0 > 0 /\ venue'.reserve_1 > 0
             /\ venue'.reserve_0 * venue'.reserve_1
                    >= venue.reserve_0 * venue.reserve_1]_vars

(***************************************************************************)
(* SpecKeys: a checkpoint created from a factory map keyed by address, on  *)
(* which find_new_amms, sync_currencies, extend, save_to_file and          *)
(* new_from_file are called in any order.  The checkpoint that is merged   *)
(* in was built the same way, from a factory map of its own.               *)
(***************************************************************************)
KeysFactories ==
    {"G" :> UniswapV2Factory("G", 1, 300),
     ("F" :> UniswapV2Factory("F", 1, 250)) @@ ("G" :> UniswapV2Factory("G", 1, 300))}

\* greatest block height of the chain
MaxKeysHeight == 2

\* two pairs of factory F, created at blocks 1 and 2
KeysChain ==
    {ChainLog("F", PAIR_CREATED_EVENT_SIGNATURE, PairBlock(p), 0,
              <<p, PairTokens(p)[1], PairTokens(p)[2]>>) : p \in {"A", "B"}}

\* what the last call was and returned
KeysOp(name, res) == [name |-> name, res |-> res]

InitKeys ==
    /\ chain = KeysChain
    /\ cp = new_from_factories("F" :> UniswapV2Factory("F", 0, 300))
    /\ \E fs \in KeysFactories, h \in {0, MaxKeysHeight} :
          other = find_new_amms(new_from_factories(fs), h, NoFailure).c
    /\ height = 0
    /\ disk = None
    /\ op = KeysOp("new", "Ok")
    /\ venue = Unused /\ kept = Unused

KeysAlive == op.res # "panic"

\* one more block
KeysAdvance ==
    /\ KeysAlive
    /\ height < MaxKeysHeight
    /\ height' = height + 1
    /\ op' = KeysOp("advance", "Ok")
    /\ UNCHANGED <<venue, kept, chain, cp, other, disk>>

\* checkpoint.find_new_amms(middleware)
KeysFindNewAmms ==
    /\ KeysAlive
    /\ \E fail \in {NoFailure, HeightFailure} :
        \E r \in {find_new_amms(cp, height, fail)} :
           /\ cp' = r.c
           /\ op' = KeysOp("find_new_amms", r.res)
    /\ UNCHANGED <<venue, kept, height, chain, other, disk>>

\* checkpoint.sync_currencies(middleware)
KeysSyncCurrencies ==
    /\ KeysAlive
    /\ LET missing == missing_currencies(cp) IN
       \E vec \in serialize_set(missing), symbols \in [missing -> Symbols],
          poison \in {{}} \cup {{t} : t \in missing}, kind \in FailureKinds :
           /\ poison = {} => kind = "call_error"
           /\ \E r \in {sync_currencies(cp, vec, Provider(symbols, poison, kind))} :
                 /\ cp' = r.c
                 /\ op' = KeysOp("sync_currencies", r.res)
    /\ UNCHANGED <<venue, kept, height, chain, other, disk>>

\* checkpoint.extend(other)
KeysExtend ==
    /\ KeysAlive
    /\ cp' = extend(cp, other)
    /\ op' = KeysOp("extend", "Ok")
    /\ UNCHANGED <<venue, kept, height, chain, other, disk>>

\* checkpoint.save_to_file(path)
KeysSaveToFile ==
    /\ KeysAlive
    /\ \E doc \in to_string_pretty(cp) :
          disk' = Some(doc)
    /\ op' = KeysOp("save_to_file", "Ok")
    /\ UNCHANGED <<venue, kept, height, chain, cp, other>>

\* checkpoint = Checkpoint::new_from_file(path)
KeysNewFromFile ==
    /\ KeysAlive
    /\ IF disk = None
       THEN /\ cp' = cp
            /\ op' = KeysOp("new_from_file", "CheckpointError")
       ELSE /\ cp' = from_str(Unwrap(disk))
            /\ op' = KeysOp("new_from_file", "Ok")
    /\ UNCHANGED <<venue, kept, height, chain, other, disk>>

NextKeys ==
    \/ KeysAdvance
    \/ KeysFindNewAmms
    \/ KeysSyncCurrencies
    \/ KeysExtend
    \/ KeysSaveToFile
    \/ KeysNewFromFile

SpecKeys == InitKeys /\ [][NextKeys]_vars

\* every entry of the map is stored under the address of its entity
KeyedByAddress(m) == \A k \in DOMAIN m : m[k].address = k

\* no two entries of the map describe one address
OneEntryPerAddress(m) ==
    \A j, k \in DOMAIN m : m[j].address = m[k].address => j = k

(***************************************************************************)
(* C39  Key/identity invariant: after any sequence of find_new_amms,       *)
(* sync_currencies, extend and load-from-file operations on a checkpoint   *)
(* created from a factory map keyed by factory address, every entry of the *)
(* factory, venue and currency maps is stored under the key equal to the   *)
(* entity's own address, so no two entries of a map describe the same      *)
(* address.  (SpecKeys)                                                    *)
(***************************************************************************)
C39_KeyedByAddress ==
    \A m \in {cp.factories, cp.amms, cp.currencies} :
        KeyedByAddress(m) /\ OneEntryPerAddress(m)

\* the checkpoint was just loaded from its file, after an extend gave it
\* factory G, find_new_amms its venues (the merged checkpoint has none) and
\* sync_currencies its currencies
C39_Witness ==
    /\ op.name = "new_from_file" /\ op.res = "Ok"
    /\ other.amms = EmptyMap
    /\ DOMAIN cp.factories = {"F", "G"}
    /\ DOMAIN cp.amms = {"A", "B"}
    /\ Cardinality(DOMAIN cp.currencies) >= 2

====
